---- MODULE Spec2Model ----
(***************************************************************************)
(* A model of yt-w (yt_monitor): the live detection protocol of            *)
(* YouTubeClient.check_if_live, the per-channel polling loop of            *)
(* ChannelMonitorThread and the fleet kept by MultiChannelMonitor and      *)
(* driven by the handlers of WebAPI.                                       *)
(*                                                                         *)
(* Python values.  A dict is a record holding exactly the keys that are    *)
(* present ("k in d" is k \in DOMAIN d).  None, where a dict or an object  *)
(* is expected, is the record PyNone; None, where a string is expected, is *)
(* the string NoneStr (what an f-string prints for it).  A URL is a        *)
(* sequence of string tokens, so that rstrip and concatenation are         *)
(* computed on it.                                                         *)
(***************************************************************************)
EXTENDS Integers, Sequences, FiniteSets, TLC

VARIABLES
    ck_pc,      \* check_if_live: "loop" (inside the for loop), "returned", "raised"
    ck_url,     \* check_if_live: the channel_url argument
    ck_world,   \* what the extraction engine answers to each query of this check
    ck_k,       \* check_if_live: index in detection_methods of the next method
    ck_calls,   \* check_if_live: the method calls made so far, in order
    ck_ret,     \* check_if_live: the returned tuple
    mons,       \* the ChannelMonitorThread objects ever constructed, by identity
    thr,        \* the threading.Thread workers ever started, by identity
    store,      \* the channels of the channels file, in file order
    web,        \* WebAPI.monitor: 0 (None) or the identity of a MultiChannelMonitor
    sups,       \* the MultiChannelMonitor objects ever constructed, by identity
    hnd,        \* the request handler in progress on the event loop
    ops,        \* requests handled so far
    sd,         \* a StreamDownloader and the call of its download() in progress
    global_settings,  \* the "global_settings" of the channels file
    resp,       \* the last request for the channels or the settings, and its response
    su,         \* an address and what sanitize_youtube_url returned for it
    lsi,        \* the arguments of a LiveStreamInfo(...) and the object constructed
    unwaited,   \* history: the monitors with a check_if_live call that no ended
                \* time.sleep of their workers has followed yet
    lsm         \* a LiveStreamMonitor and the call of its start() in progress

ckVars == <<ck_pc, ck_url, ck_world, ck_k, ck_calls, ck_ret>>
monVars == <<mons, thr>>
supVars == <<store, web, sups, hnd, ops>>
sdVars == <<sd>>
cmVars == <<global_settings, resp>>
fnVars == <<su, lsi>>
hsVars == <<unwaited>>
lmVars == <<lsm>>

vars == <<ck_pc, ck_url, ck_world, ck_k, ck_calls, ck_ret, mons, thr,
          store, web, sups, hnd, ops, sd, global_settings, resp, su,
          lsi, unwaited, lsm>>

-----------------------------------------------------------------------------
(* Bounds of the model *)

MaxEntries == 2     \* longest listing the extraction engine returns
MaxThreads == 3     \* workers one monitor is started with (start/stop called directly)
MaxOps == 2         \* requests the control surface handles
MaxMinutes == 30    \* largest split_time_minutes of the ordinary settings
MaxSizeMB == 120    \* largest split_size_mb of the ordinary settings
MaxLargeOffset == 4 \* the large split_size_mb settings are 5 * 2^48 + 0..MaxLargeOffset
MaxParams == 2      \* most name=value pairs in the address of a request
MaxRequests == 3    \* requests for the channels and the settings
MaxPairs == 3       \* most name=value pairs in an address given to sanitize_youtube_url
MaxCycles == 3      \* cycles one call of LiveStreamMonitor.start goes through

-----------------------------------------------------------------------------
(* Python values *)

PyNone == [none |-> TRUE]
NoneStr == "None"
Raised == [raised |-> TRUE]          \* a call that ended by raising an Exception
EngineError == [error |-> TRUE]      \* extract_info raised (network, parse error)
Return(v) == [ret |-> v]             \* a call that ended by returning v
NoCall == [nocall |-> TRUE]          \* a call not made (yet)

\* GlobalSettingsDTO(): the settings a new channels file is written with
GlobalSettingsDTO ==
    [check_interval_seconds |-> 60,
     download_directory     |-> "./downloads",
     log_file               |-> "./live_monitor.log",
     split_mode             |-> "time",
     split_time_minutes     |-> 30,
     split_size_mb          |-> 500]

ValueError(msg) == [raised |-> "ValueError", msg |-> msg]

\* GlobalSettingsDTO.__post_init__: the ValueError it raises, or None
settings_post_init(settings) ==
    IF settings.check_interval_seconds < 1
    THEN ValueError("check_interval_seconds must be at least 1")
    ELSE IF settings.split_mode \notin {"time", "size", "none"}
    THEN ValueError("split_mode must be 'time', 'size', or 'none'")
    ELSE PyNone

Get(d, key, default) == IF key \in DOMAIN d THEN d[key] ELSE default

RECURSIVE rstrip(_)
rstrip(url) ==
    IF url # <<>> /\ url[Len(url)] = "/"
    THEN rstrip(SubSeq(url, 1, Len(url) - 1))
    ELSE url

WatchPrefix == "https://www.youtube.com/watch?v="
TestChannel == "https://www.youtube.com/@TestChannel"

WatchUrl(video_id) == <<WatchPrefix, video_id>>

\* A string is the sequence of its pieces; these are the pieces that begin
\* with "http" (the last one is a video id).
ShortPrefix == "https://youtu.be/"
HttpPieces == {WatchPrefix, TestChannel, ShortPrefix, "httpXyz1234"}

\* url.startswith('http')
startswith_http(url) == url # <<>> /\ url[1] \in HttpPieces

-----------------------------------------------------------------------------
(* youtube_client.py *)

\* A LiveStreamInfo without __post_init__.
LiveStreamInfo_unformatted(video_id, url, title) ==
    [video_id |-> video_id, url |-> url, title |-> title]

LiveStreamInfo(video_id, url, title) ==
    [video_id |-> video_id,
     url      |-> IF startswith_http(url) THEN url ELSE WatchUrl(video_id),
     title    |-> title]

\* The entries a listing of the extraction engine can hold.
EntryPool ==
    { PyNone,
      [is_live |-> TRUE],
      [id |-> "vod001", title |-> "Old"],
      [id |-> "abc123", is_live |-> TRUE, title |-> "Show"],
      [id |-> "xyz789", is_live |-> TRUE] }

Listings == UNION { [1..n -> EntryPool] : n \in 0..MaxEntries }

\* What extract_info answers for the /live URL.
LiveResponses ==
    { EngineError, PyNone,
      [id |-> "vod001", is_live |-> FALSE, title |-> "Old"],
      [id |-> "abc123", is_live |-> TRUE, title |-> "Show"],
      [id |-> "liv456", is_live |-> TRUE] }

\* What extract_info answers for a listing URL.
ListingResponses ==
    { EngineError, PyNone, [id |-> "vod001", title |-> "Old"] }
        \cup { [entries |-> l] : l \in Listings }

live_url(channel_url) == rstrip(channel_url) \o <<"/live">>
streams_url(channel_url) == rstrip(channel_url) \o <<"/streams">>

check_live_endpoint(info) ==
    IF info = EngineError THEN Raised
    ELSE IF info # PyNone /\ Get(info, "is_live", FALSE)
    THEN LiveStreamInfo(Get(info, "id", NoneStr),
                        WatchUrl(Get(info, "id", NoneStr)),
                        Get(info, "title", NoneStr))
    ELSE PyNone

\* The loop over the entries with "break" in the place of "continue": it ends
\* at the first entry that is None or has no id.
RECURSIVE scan_entries_stopping(_)
scan_entries_stopping(entries) ==
    IF entries = <<>> THEN PyNone
    ELSE LET entry == Head(entries) IN
         IF entry = PyNone \/ "id" \notin DOMAIN entry
         THEN PyNone
         ELSE IF Get(entry, "is_live", FALSE)
         THEN LiveStreamInfo(Get(entry, "id", NoneStr),
                             WatchUrl(Get(entry, "id", NoneStr)),
                             Get(entry, "title", NoneStr))
         ELSE scan_entries_stopping(Tail(entries))

RECURSIVE scan_entries(_)
scan_entries(entries) ==
    IF entries = <<>> THEN PyNone
    ELSE LET entry == Head(entries) IN
         IF entry = PyNone \/ "id" \notin DOMAIN entry
         THEN scan_entries(Tail(entries))
         ELSE IF Get(entry, "is_live", FALSE)
         THEN LiveStreamInfo(Get(entry, "id", NoneStr),
                             WatchUrl(Get(entry, "id", NoneStr)),
                             Get(entry, "title", NoneStr))
         ELSE scan_entries(Tail(entries))

check_streams_tab(info) ==
    IF info = EngineError THEN Raised
    ELSE IF info = PyNone THEN Raised      \* 'entries' in None: TypeError
    ELSE IF "entries" \in DOMAIN info THEN scan_entries(info.entries)
    ELSE PyNone

check_channel_page(info) ==
    IF info = EngineError THEN Raised
    ELSE IF info = PyNone THEN Raised
    ELSE IF "entries" \in DOMAIN info THEN scan_entries(info.entries)
    ELSE PyNone

\* The detection methods with the listing of the address itself tried before
\* the /streams listing.
detection_methods_reordered ==
    <<"_check_live_endpoint", "_check_channel_page", "_check_streams_tab">>

detection_methods ==
    <<"_check_live_endpoint", "_check_streams_tab", "_check_channel_page">>

\* The URL a detection method hands to extract_info.
query_url(method, channel_url) ==
    CASE method = "_check_live_endpoint" -> live_url(channel_url)
      [] method = "_check_streams_tab"   -> streams_url(channel_url)
      [] method = "_check_channel_page"  -> channel_url

\* method(channel_url), the engine answering as `world` says.
call_method(method, world) ==
    CASE method = "_check_live_endpoint" -> check_live_endpoint(world.live)
      [] method = "_check_streams_tab"   -> check_streams_tab(world.streams)
      [] method = "_check_channel_page"  -> check_channel_page(world.page)

ChannelUrls == { <<TestChannel>>, <<TestChannel, "/">> }

Worlds == [live : LiveResponses, streams : ListingResponses, page : ListingResponses]

\* Variants of one iteration of the loop, for comparison with the source's:
\* "propagate" has no except clause, "abort" returns (False, None) from the
\* except clause, "exhaustive" keeps the result and goes on to the next method.
check_if_live_variant(v) ==
    /\ ck_pc = "loop"
    /\ ck_k <= Len(detection_methods)
    /\ LET method == detection_methods[ck_k]
           result == call_method(method, ck_world)
       IN  /\ ck_calls' = Append(ck_calls,
                                 [method |-> method,
                                  query  |-> query_url(method, ck_url),
                                  result |-> result])
           /\ IF result = Raised
              THEN IF v = "propagate"
                   THEN /\ ck_pc' = "raised"
                        /\ UNCHANGED <<ck_k, ck_ret>>
                   ELSE IF v = "abort"
                   THEN /\ ck_ret' = <<FALSE, PyNone>>
                        /\ ck_pc' = "returned"
                        /\ UNCHANGED ck_k
                   ELSE /\ ck_k' = ck_k + 1
                        /\ UNCHANGED <<ck_pc, ck_ret>>
              ELSE IF result # PyNone
              THEN IF v = "exhaustive"
                   THEN /\ ck_ret' = <<TRUE, result>>
                        /\ ck_k' = ck_k + 1
                        /\ UNCHANGED ck_pc
                   ELSE /\ ck_ret' = <<TRUE, result>>
                        /\ ck_pc' = "returned"
                        /\ UNCHANGED ck_k
              ELSE /\ ck_k' = ck_k + 1
                   /\ UNCHANGED <<ck_pc, ck_ret>>
    /\ UNCHANGED <<ck_url, ck_world, monVars, supVars, sdVars, cmVars, fnVars, hsVars, lmVars>>

check_if_live_propagating == check_if_live_variant("propagate")
check_if_live_aborting == check_if_live_variant("abort")
check_if_live_exhaustive == check_if_live_variant("exhaustive")

\* One iteration of "for method in detection_methods".
check_if_live_iterate ==
    /\ ck_pc = "loop"
    /\ ck_k <= Len(detection_methods)
    /\ LET method == detection_methods[ck_k]
           result == call_method(method, ck_world)
       IN  /\ ck_calls' = Append(ck_calls,
                                 [method |-> method,
                                  query  |-> query_url(method, ck_url),
                                  result |-> result])
           /\ IF result = Raised
              THEN \* except Exception: logged at debug level, next method
                   /\ ck_k' = ck_k + 1
                   /\ UNCHANGED <<ck_pc, ck_ret>>
              ELSE IF result # PyNone
              THEN \* return True, result
                   /\ ck_ret' = <<TRUE, result>>
                   /\ ck_pc' = "returned"
                   /\ UNCHANGED ck_k
              ELSE /\ ck_k' = ck_k + 1
                   /\ UNCHANGED <<ck_pc, ck_ret>>
    /\ UNCHANGED <<ck_url, ck_world, monVars, supVars, sdVars, cmVars, fnVars, hsVars, lmVars>>

\* The loop is exhausted: return False, None.
check_if_live_exhausted ==
    /\ ck_pc = "loop"
    /\ ck_k > Len(detection_methods)
    /\ ck_ret' = <<FALSE, PyNone>>
    /\ ck_pc' = "returned"
    /\ UNCHANGED <<ck_url, ck_world, ck_k, ck_calls, monVars, supVars, sdVars, cmVars, fnVars, hsVars, lmVars>>

\* The arguments LiveStreamInfo is constructed with: the url a video id, a
\* watch URL, a short URL or the empty string.
VideoIds == {"abc123", "xyz789", "liv456", "httpXyz1234"}

LiveStreamInfoArgs ==
    [video_id : VideoIds,
     url      : {<<>>} \cup { <<id>> : id \in VideoIds }
                       \cup { WatchUrl(id) : id \in VideoIds }
                       \cup { <<ShortPrefix, id>> : id \in VideoIds },
     title    : {NoneStr, "Show"}]

\* LiveStreamInfo(video_id=..., url=..., title=...)
LiveStreamInfo_init ==
    /\ lsi # PyNone
    /\ lsi.obj = NoCall
    /\ lsi' = [lsi EXCEPT !.obj = LiveStreamInfo(lsi.video_id, lsi.url, lsi.title)]
    /\ UNCHANGED <<ckVars, monVars, supVars, sdVars, cmVars, su, hsVars, lmVars>>

\* Either check_if_live(channel_url) has just been entered, with any
\* channel_url and the extraction engine in any state, or a LiveStreamInfo is
\* about to be constructed.
InitDetect ==
    /\ \/ /\ ck_pc = "loop"
          /\ ck_url \in ChannelUrls
          /\ ck_world \in Worlds
          /\ lsi = PyNone
       \/ /\ ck_pc = "idle"
          /\ ck_url = <<TestChannel>>
          /\ ck_world = [live |-> PyNone, streams |-> PyNone, page |-> PyNone]
          /\ lsi \in { [video_id |-> args.video_id, url |-> args.url,
                         title |-> args.title, obj |-> NoCall] :
                        args \in LiveStreamInfoArgs }
    /\ ck_k = 1
    /\ ck_calls = <<>>
    /\ ck_ret = PyNone
    /\ mons = <<>>
    /\ thr = <<>>
    /\ store = <<>>
    /\ web = 0
    /\ sups = <<>>
    /\ hnd = [op |-> "idle"]
    /\ ops = 0
    /\ sd = PyNone
    /\ global_settings = GlobalSettingsDTO
    /\ resp = PyNone
    /\ su = PyNone
    /\ unwaited = {}
    /\ lsm = PyNone

NextDetect ==
    \/ check_if_live_iterate
    \/ check_if_live_exhausted
    \/ LiveStreamInfo_init

SpecDetect == InitDetect /\ [][NextDetect]_vars

-----------------------------------------------------------------------------
(* Properties of check_if_live, under SpecDetect *)

\* What the k-th strategy answers when the engine answers as ck_world says:
\* 1 is the /live endpoint, 2 the /streams listing, 3 the address itself.
StrategyOutcome(k) ==
    CASE k = 1 -> check_live_endpoint(ck_world.live)
      [] k = 2 -> check_streams_tab(ck_world.streams)
      [] k = 3 -> check_channel_page(ck_world.page)

Positive(k) == StrategyOutcome(k) \notin {Raised, PyNone}

LowestPositive == CHOOSE k \in 1..3 : Positive(k) /\ \A j \in 1..(k - 1) : ~Positive(j)

\* C2: the calls of one check are, in this order, the /live endpoint, the
\* /streams listing and the address itself as a listing, and when some strategy
\* reports a live broadcast the check returns (True, r) with r the report of the
\* lowest-numbered such strategy.
C2_OrderedFirstPositive ==
    /\ \A i \in DOMAIN ck_calls :
          /\ ck_calls[i].result = StrategyOutcome(i)
          /\ i = 1 => ck_calls[i].query = rstrip(ck_url) \o <<"/live">>
          /\ i = 2 => ck_calls[i].query = rstrip(ck_url) \o <<"/streams">>
          /\ i = 3 => ck_calls[i].query = ck_url
    /\ (ck_pc = "returned" /\ \E k \in 1..3 : Positive(k))
          => ck_ret = <<TRUE, StrategyOutcome(LowestPositive)>>

\* The check has returned the report of the /streams listing although the
\* address itself reports another broadcast.
C2_Witness ==
    /\ ck_pc = "returned"
    /\ ~Positive(1) /\ Positive(2) /\ Positive(3)
    /\ StrategyOutcome(2) # StrategyOutcome(3)
    /\ ck_ret = <<TRUE, StrategyOutcome(2)>>

\* C3: no exception leaves check_if_live, and a strategy that raised is
\* followed by the next strategy of the list: it has been called, or the loop is
\* about to call it.
C3_RaiseSwallowed ==
    /\ ck_pc # "raised"
    /\ \A i \in DOMAIN ck_calls :
          (ck_calls[i].result = Raised /\ i < 3) =>
              \/ /\ Len(ck_calls) > i
                 /\ ck_calls[i + 1].method = detection_methods[i + 1]
              \/ /\ Len(ck_calls) = i
                 /\ ck_pc = "loop"
                 /\ ck_k = i + 1
    /\ (ck_pc = "returned" /\ ck_calls # <<>> /\ ck_calls[Len(ck_calls)].result = Raised)
          => Len(ck_calls) = 3 /\ ck_ret = <<FALSE, PyNone>>

\* The first two strategies raised and the third one's report was returned.
C3_Witness ==
    /\ ck_pc = "returned"
    /\ Len(ck_calls) = 3
    /\ ck_calls[1].result = Raised
    /\ ck_calls[2].result = Raised
    /\ ck_ret = <<TRUE, StrategyOutcome(3)>>

\* C4: no strategy is called twice in one check, and a call that reported a
\* live broadcast is the last call of the check, which has returned.
C4_ShortCircuit ==
    /\ \A i, j \in DOMAIN ck_calls : i # j => ck_calls[i].method # ck_calls[j].method
    /\ \A i \in DOMAIN ck_calls :
          ck_calls[i].result \notin {Raised, PyNone} =>
              i = Len(ck_calls) /\ ck_pc = "returned"

\* The check returned after its first call although both later strategies
\* would have reported a live broadcast.
C4_Witness ==
    /\ ck_pc = "returned"
    /\ Len(ck_calls) = 1
    /\ Positive(1) /\ Positive(2) /\ Positive(3)

\* C5: a check that has returned has returned (False, None) exactly when none
\* of the three strategies reports a live broadcast, and the first component of
\* what it returned is True exactly when the second is not None.
C5_NegativeIffAllFail ==
    ck_pc = "returned" =>
        /\ (ck_ret = <<FALSE, PyNone>>) <=> (\A k \in 1..3 : ~Positive(k))
        /\ ck_ret[1] <=> (ck_ret[2] # PyNone)

\* C23: the LiveStreamInfo a check returns has the watch URL of its video_id
\* as url; a LiveStreamInfo constructed with a url that does not start with
\* "http" has the watch URL of its video_id as url, one constructed with a url
\* that starts with "http" has that url.
C23_CanonicalUrl ==
    /\ (ck_pc = "returned" /\ ck_ret[1]) =>
          ck_ret[2].url = <<WatchPrefix, ck_ret[2].video_id>>
    /\ (lsi # PyNone /\ lsi.obj # NoCall) =>
          /\ lsi.obj.video_id = lsi.video_id
          /\ lsi.obj.url = IF lsi.url = <<>> \/ lsi.url[1] \notin HttpPieces
                           THEN <<WatchPrefix, lsi.video_id>>
                           ELSE lsi.url

\* A LiveStreamInfo was constructed with a video id as its url and has the
\* watch URL of its video_id.
C23_Witness ==
    /\ lsi # PyNone
    /\ lsi.obj # NoCall
    /\ lsi.url = <<lsi.video_id>>
    /\ lsi.obj.url = <<WatchPrefix, lsi.video_id>>

\* The listing a listing strategy was answered with: the second call of a
\* check is the /streams listing, the third the address itself.
ListingOf(i) == IF i = 2 THEN ck_world.streams ELSE ck_world.page

\* The positions of a listing whose entry is not None, has an id and is
\* flagged live.
LiveEntries(entries) ==
    { k \in DOMAIN entries :
        /\ entries[k] # PyNone
        /\ "id" \in DOMAIN entries[k]
        /\ "is_live" \in DOMAIN entries[k]
        /\ entries[k].is_live }

\* C29: a listing strategy that was answered with a listing reports the
\* LiveStreamInfo of the first entry, in the order of the listing, that is not
\* None, has an id and is flagged live (its id, the watch URL of its id, its
\* title or none), whatever None entries and entries without an id come
\* before it; without such an entry it reports None.
C29_FirstLiveEntry ==
    \A i \in DOMAIN ck_calls :
        (/\ ck_calls[i].method \in {"_check_streams_tab", "_check_channel_page"}
         /\ "entries" \in DOMAIN ListingOf(i)) =>
            LET entries == ListingOf(i).entries
                live == LiveEntries(entries)
            IN  IF live = {}
                THEN ck_calls[i].result = PyNone
                ELSE LET first == CHOOSE k \in live : \A j \in live : k <= j
                         entry == entries[first]
                     IN  ck_calls[i].result =
                             [video_id |-> entry.id,
                              url      |-> <<WatchPrefix, entry.id>>,
                              title    |-> IF "title" \in DOMAIN entry
                                           THEN entry.title ELSE NoneStr]

\* The /streams listing began with an entry flagged live that has no id, and
\* the strategy reported the entry after it.
C29_Witness ==
    /\ Len(ck_calls) >= 2
    /\ ck_calls[2].method = "_check_streams_tab"
    /\ "entries" \in DOMAIN ck_world.streams
    /\ Len(ck_world.streams.entries) = 2
    /\ ck_world.streams.entries[1] = [is_live |-> TRUE]
    /\ ck_world.streams.entries[2] = [id |-> "xyz789", is_live |-> TRUE]
    /\ ck_calls[2].result = [video_id |-> "xyz789",
                             url      |-> <<WatchPrefix, "xyz789">>,
                             title    |-> NoneStr]

\* (False, None) was returned after a strategy that raised and one that
\* reported nothing.
C5_Witness ==
    /\ ck_pc = "returned"
    /\ ck_ret = <<FALSE, PyNone>>
    /\ Len(ck_calls) = 3
    /\ \E i, j \in DOMAIN ck_calls :
          ck_calls[i].result = Raised /\ ck_calls[j].result = PyNone

-----------------------------------------------------------------------------
(* multi_channel_monitor.py: ChannelMonitorThread *)


\* The suffix of the filename prefix; the source's is "_" followed by the
\* Korean word for "live".
LiveSuffix == "_LIVE"

\* What youtube_client.check_if_live hands back to a cycle: a tuple
\* (bool, Optional[LiveStreamInfo]), or an Exception (the client is a
\* constructor argument of the monitor).
DetectorInfos ==
    { LiveStreamInfo("abc123", WatchUrl("abc123"), "Show"),
      LiveStreamInfo("xyz789", <<"xyz789">>, NoneStr) }

DetectorOutcomes ==
    {Raised} \cup { Return(<<l, i>>) : l \in BOOLEAN, i \in {PyNone} \cup DetectorInfos }

\* What downloader.download hands back: True, False, or an Exception.
SegmenterOutcomes == {Return(TRUE), Return(FALSE), Raised}

\* ChannelMonitorThread.__init__
ChannelMonitorThread(channel, global_settings_, owner) ==
    [channel        |-> channel,
     global_settings |-> global_settings_,
     owner          |-> owner,
     is_running     |-> FALSE,
     is_downloading |-> FALSE,
     thread         |-> 0]

\* _sanitize_name: each of < > : " / \ | ? * replaced by "_"; of the names
\* used here only "Test/Channel" has one.
sanitize_name(name) == IF name = "Test/Channel" THEN "Test_Channel" ELSE name

\* Path(global_settings.download_directory) / self._sanitize_name(channel.name):
\* the directory the monitor of `channel` gives to its StreamDownloader
channel_download_dir(channel, settings) ==
    <<settings.download_directory, sanitize_name(channel.name)>>

\* threading.Thread(target=self._monitor_loop), not yet at its first loop test
NewThread(m) ==
    [mon |-> m, pc |-> "while", skipped |-> FALSE,
     det |-> NoCall, seg |-> <<>>, out |-> NoCall]

\* The identities of the workers and of the MultiChannelMonitor objects: more
\* than are ever created within the bounds.
ThreadIds == 1..(MaxThreads + MaxOps)
SupervisorIds == 1..MaxOps

Workers(m) == { t \in DOMAIN thr : thr[t].mon = m /\ thr[t].pc # "exited" }

\* ChannelMonitorThread.start
thread_start(m) ==
    /\ ~mons[m].is_running
    /\ mons' = [mons EXCEPT ![m].is_running = TRUE, ![m].thread = Len(thr) + 1]
    /\ thr' = Append(thr, NewThread(m))

\* A stop that also gives up the recording: is_downloading is cleared with
\* is_running.
thread_stop_cancelling(m) ==
    /\ mons' = [mons EXCEPT ![m].is_running = FALSE, ![m].is_downloading = FALSE]
    /\ UNCHANGED thr

\* ChannelMonitorThread.stop: self.is_running = False
thread_stop(m) ==
    /\ mons' = [mons EXCEPT ![m].is_running = FALSE]
    /\ UNCHANGED thr

\* ChannelMonitorThread.stop: self.thread.join(timeout=5.0) returns.  It returns
\* when the worker has ended, and after five seconds when it has not: a worker
\* outlasts them inside a blocking call (check_if_live's requests, the download,
\* the sleep of check_interval_seconds), not between two statements of its loop.
thread_joined(m) ==
    IF mons[m].thread = 0
    THEN TRUE
    ELSE thr[mons[m].thread].pc \in {"exited", "check_if_live", "download", "sleep"}

\* _monitor_loop with "while True": the worker never looks at is_running.
monitor_loop_test_forever(t) ==
    /\ t \in DOMAIN thr
    /\ thr[t].pc = "while"
    /\ thr' = [thr EXCEPT ![t].pc = "cycle"]
    /\ UNCHANGED mons
    /\ UNCHANGED <<ckVars, supVars, sdVars, cmVars, fnVars, hsVars, lmVars>>

\* _monitor_loop with a worker that, on leaving the loop, takes its monitor out
\* of the monitor_threads of the MultiChannelMonitor that constructed it.
monitor_loop_test_unregistering(t) ==
    /\ t \in DOMAIN thr
    /\ thr[t].pc = "while"
    /\ thr' = [thr EXCEPT ![t].pc =
                  IF mons[thr[t].mon].is_running THEN "cycle" ELSE "exited"]
    /\ sups' = IF mons[thr[t].mon].is_running
               THEN sups
               ELSE [s \in DOMAIN sups |->
                        [sups[s] EXCEPT !.monitor_threads =
                            SelectSeq(@, LAMBDA e : e.mon # thr[t].mon)]]
    /\ UNCHANGED <<mons, store, web, hnd, ops>>
    /\ UNCHANGED <<ckVars, sdVars, cmVars, fnVars, hsVars, lmVars>>

\* _monitor_loop: "while self.is_running"
monitor_loop_test(t) ==
    /\ t \in DOMAIN thr
    /\ thr[t].pc = "while"
    /\ thr' = [thr EXCEPT ![t].pc =
                  IF mons[thr[t].mon].is_running THEN "cycle" ELSE "exited"]
    /\ UNCHANGED mons
    /\ UNCHANGED <<ckVars, supVars, sdVars, cmVars, fnVars, hsVars, lmVars>>

\* _monitor_cycle without its first two lines: is_downloading is not looked at.
monitor_cycle_unguarded(t) ==
    /\ t \in DOMAIN thr
    /\ thr[t].pc = "cycle"
    /\ thr' = [thr EXCEPT ![t].pc = "check_if_live"]
    /\ unwaited' = unwaited \cup {thr[t].mon}
    /\ UNCHANGED mons
    /\ UNCHANGED <<ckVars, supVars, sdVars, cmVars, fnVars, lmVars>>

\* _monitor_cycle up to the call of check_if_live
monitor_cycle(t) ==
    /\ t \in DOMAIN thr
    /\ thr[t].pc = "cycle"
    /\ IF mons[thr[t].mon].is_downloading
       THEN /\ thr' = [thr EXCEPT ![t].pc = "sleep", ![t].skipped = TRUE]
            /\ UNCHANGED unwaited
       ELSE /\ thr' = [thr EXCEPT ![t].pc = "check_if_live"]
            /\ unwaited' = unwaited \cup {thr[t].mon}
    /\ UNCHANGED mons
    /\ UNCHANGED <<ckVars, supVars, sdVars, cmVars, fnVars, lmVars>>

\* _monitor_cycle with "if stream_info" in the place of "if is_live and stream_info".
monitor_cycle_detected_untested(t) ==
    /\ t \in DOMAIN thr
    /\ thr[t].pc = "check_if_live"
    /\ \E r \in DetectorOutcomes :
          LET m == thr[t].mon IN
          IF r # Raised /\ r.ret[2] # PyNone
          THEN /\ mons' = [mons EXCEPT ![m].is_downloading = TRUE]
               /\ thr' = [thr EXCEPT
                            ![t].pc = "download",
                            ![t].det = r,
                            ![t].seg = Append(@,
                                [stream_url      |-> r.ret[2].url,
                                 filename_prefix |-> <<mons[m].channel.name, LiveSuffix>>])]
          ELSE /\ thr' = [thr EXCEPT ![t].pc = "sleep", ![t].det = r]
               /\ UNCHANGED mons
    /\ UNCHANGED <<ckVars, supVars, sdVars, cmVars, fnVars, hsVars, lmVars>>

\* _monitor_cycle under a _monitor_loop without its try/except: an exception of
\* check_if_live ends the worker.
monitor_cycle_detected_uncaught(t) ==
    /\ t \in DOMAIN thr
    /\ thr[t].pc = "check_if_live"
    /\ \E r \in DetectorOutcomes :
          LET m == thr[t].mon IN
          IF r # Raised /\ r.ret[1] /\ r.ret[2] # PyNone
          THEN /\ mons' = [mons EXCEPT ![m].is_downloading = TRUE]
               /\ thr' = [thr EXCEPT
                            ![t].pc = "download",
                            ![t].det = r,
                            ![t].seg = Append(@,
                                [stream_url      |-> r.ret[2].url,
                                 filename_prefix |-> <<mons[m].channel.name, LiveSuffix>>])]
          ELSE /\ thr' = [thr EXCEPT ![t].pc = IF r = Raised THEN "exited" ELSE "sleep",
                                     ![t].det = r]
               /\ UNCHANGED mons
    /\ UNCHANGED <<ckVars, supVars, sdVars, cmVars, fnVars, hsVars, lmVars>>

\* _monitor_cycle from the return of check_if_live, into _handle_live_stream
\* up to the call of downloader.download
monitor_cycle_detected(t) ==
    /\ t \in DOMAIN thr
    /\ thr[t].pc = "check_if_live"
    /\ \E r \in DetectorOutcomes :
          LET m == thr[t].mon IN
          IF r # Raised /\ r.ret[1] /\ r.ret[2] # PyNone
          THEN /\ mons' = [mons EXCEPT ![m].is_downloading = TRUE]
               /\ thr' = [thr EXCEPT
                            ![t].pc = "download",
                            ![t].det = r,
                            ![t].seg = Append(@,
                                [stream_url      |-> r.ret[2].url,
                                 filename_prefix |-> <<mons[m].channel.name, LiveSuffix>>])]
          ELSE \* no live stream, or the exception reaches _monitor_loop's except
               /\ thr' = [thr EXCEPT ![t].pc = "sleep", ![t].det = r]
               /\ UNCHANGED mons
    /\ UNCHANGED <<ckVars, supVars, sdVars, cmVars, fnVars, hsVars, lmVars>>

\* _handle_live_stream with the reset after the call and no try/finally: an
\* exception of downloader.download passes it by.
handle_live_stream_done_unprotected(t) ==
    /\ t \in DOMAIN thr
    /\ thr[t].pc = "download"
    /\ \E o \in SegmenterOutcomes :
          /\ thr' = [thr EXCEPT ![t].pc = "sleep", ![t].out = o]
          /\ mons' = [mons EXCEPT ![thr[t].mon].is_downloading = (o = Raised)]
    /\ UNCHANGED <<ckVars, supVars, sdVars, cmVars, fnVars, hsVars, lmVars>>

\* _handle_live_stream from the return of downloader.download: the finally
\* clause runs on every outcome; an exception reaches _monitor_loop's except.
handle_live_stream_done(t) ==
    /\ t \in DOMAIN thr
    /\ thr[t].pc = "download"
    /\ \E o \in SegmenterOutcomes :
          thr' = [thr EXCEPT ![t].pc = "sleep", ![t].out = o]
    /\ mons' = [mons EXCEPT ![thr[t].mon].is_downloading = FALSE]
    /\ UNCHANGED <<ckVars, supVars, sdVars, cmVars, fnVars, hsVars, lmVars>>

\* _monitor_loop: time.sleep(check_interval_seconds) returns
monitor_loop_wake(t) ==
    /\ t \in DOMAIN thr
    /\ thr[t].pc = "sleep"
    /\ thr' = [thr EXCEPT ![t] = NewThread(thr[t].mon)]
    /\ unwaited' = unwaited \ {thr[t].mon}
    /\ UNCHANGED mons
    /\ UNCHANGED <<ckVars, supVars, sdVars, cmVars, fnVars, lmVars>>

WorkerStep(t) ==
    \/ monitor_loop_test(t)
    \/ monitor_cycle(t)
    \/ monitor_cycle_detected(t)
    \/ handle_live_stream_done(t)
    \/ monitor_loop_wake(t)

TestChannelDTO ==
    [id |-> "test-channel-id", name |-> "Test Channel", url |-> <<TestChannel>>]

\* One monitor, constructed; start and stop are then called in any order.
InitMonitor ==
    /\ ck_pc = "returned"
    /\ ck_url = <<TestChannel>>
    /\ ck_world = [live |-> PyNone, streams |-> PyNone, page |-> PyNone]
    /\ ck_k = 1
    /\ ck_calls = <<>>
    /\ ck_ret = PyNone
    /\ mons = <<ChannelMonitorThread(TestChannelDTO, GlobalSettingsDTO, 0)>>
    /\ thr = <<>>
    /\ store = <<>>
    /\ web = 0
    /\ sups = <<>>
    /\ hnd = [op |-> "idle"]
    /\ ops = 0
    /\ sd = PyNone
    /\ global_settings = GlobalSettingsDTO
    /\ resp = PyNone
    /\ su = PyNone
    /\ lsi = PyNone
    /\ unwaited = {}
    /\ lsm = PyNone

\* The owner of the monitor calls start()
CallStart ==
    /\ hnd = [op |-> "idle"]
    /\ Len(thr) < MaxThreads
    /\ thread_start(1)
    /\ UNCHANGED <<ckVars, supVars, sdVars, cmVars, fnVars, hsVars, lmVars>>

\* The owner of the monitor calls stop()
CallStop ==
    /\ hnd = [op |-> "idle"]
    /\ thread_stop(1)
    /\ hnd' = [op |-> "join", mon |-> 1]
    /\ UNCHANGED <<ckVars, store, web, sups, ops, sdVars, cmVars, fnVars, hsVars, lmVars>>

\* stop() returns to the owner
CallStopReturn ==
    /\ hnd.op = "join"
    /\ thread_joined(hnd.mon)
    /\ hnd' = [op |-> "idle"]
    /\ UNCHANGED <<ckVars, monVars, store, web, sups, ops, sdVars, cmVars, fnVars, hsVars, lmVars>>

NextMonitor ==
    \/ CallStart
    \/ CallStop
    \/ CallStopReturn
    \/ \E t \in ThreadIds : WorkerStep(t)

SpecMonitor == InitMonitor /\ [][NextMonitor]_vars

\* The monitor with workers that go on: check_if_live and the download come
\* back, the sleep of check_interval_seconds ends, and a worker that can take
\* its next statement takes it.
SpecMonitorLive ==
    /\ InitMonitor
    /\ [][NextMonitor]_vars
    /\ \A t \in ThreadIds : WF_vars(WorkerStep(t))

-----------------------------------------------------------------------------
(* Properties of one ChannelMonitorThread, under SpecMonitor *)

\* The workers of monitor m that are inside a call of check_if_live or of
\* downloader.download.
InCall(m) ==
    { t \in DOMAIN thr : thr[t].mon = m /\ thr[t].pc \in {"check_if_live", "download"} }

\* C6: whatever start and stop calls were made on a monitor, no two of its
\* workers are inside a Detector call or a Segmenter call at the same time.
C6_SequentialCycles == \A m \in DOMAIN mons : Cardinality(InCall(m)) <= 1

\* C1: the step in which a call of downloader.download ends, by True, by False
\* or by an exception, ends the cycle with is_downloading cleared; and a cycle
\* that called the Segmenter has only ended once that call has.
C1_RecordingAlwaysReset ==
    /\ [](\A t \in DOMAIN thr : thr[t].out # NoCall => thr[t].pc = "sleep")
    /\ [][\A t \in DOMAIN thr :
             (thr[t].pc = "download" /\ thr'[t].pc # "download") =>
                 /\ thr'[t].pc = "sleep"
                 /\ thr'[t].out \in SegmenterOutcomes
                 /\ ~mons'[thr[t].mon].is_downloading]_vars

\* A cycle has ended after a Segmenter call that raised, and the monitor is
\* not recording.
C1_Witness ==
    \E t \in DOMAIN thr :
        /\ thr[t].pc = "sleep"
        /\ thr[t].seg # <<>>
        /\ thr[t].out = Raised
        /\ ~mons[thr[t].mon].is_downloading

\* C9: a cycle that finds is_downloading set goes straight to the sleep of the
\* loop: it leaves every monitor's fields as they are, and up to the end of that
\* sleep it has called neither check_if_live nor downloader.download.
C9_SkipWhileRecording ==
    /\ [](\A t \in DOMAIN thr :
             thr[t].skipped =>
                 thr[t].pc = "sleep" /\ thr[t].det = NoCall /\ thr[t].seg = <<>>)
    /\ [][\A t \in DOMAIN thr :
             (thr[t].pc = "cycle" /\ thr'[t].pc # "cycle"
                  /\ mons[thr[t].mon].is_downloading) =>
                 /\ thr'[t].skipped
                 /\ mons' = mons]_vars

\* A worker has skipped a cycle while another worker of its monitor is inside
\* downloader.download.
C9_Witness ==
    \E t, u \in DOMAIN thr :
        /\ t # u
        /\ thr[t].mon = thr[u].mon
        /\ thr[t].skipped
        /\ thr[u].pc = "download"
        /\ mons[thr[t].mon].is_downloading

\* C17: a call of stop(), and its return, leave is_downloading and every
\* worker where they are; is_downloading is cleared only by the step in which
\* a worker of the monitor comes back from downloader.download; and a worker
\* inside downloader.download leaves it only by that call's own outcome.
C17_StopLeavesRecording ==
    /\ [][(CallStop \/ CallStopReturn) =>
             /\ mons'[1].is_downloading = mons[1].is_downloading
             /\ thr' = thr]_vars
    /\ [][\A m \in DOMAIN mons :
             (mons[m].is_downloading /\ ~mons'[m].is_downloading) =>
                 \E t \in DOMAIN thr :
                     /\ thr[t].mon = m
                     /\ thr[t].pc = "download"
                     /\ thr'[t].pc = "sleep"
                     /\ thr'[t].out \in SegmenterOutcomes]_vars
    /\ [][\A t \in DOMAIN thr :
             (thr[t].pc = "download" /\ thr'[t] # thr[t]) =>
                 /\ thr'[t].pc = "sleep"
                 /\ thr'[t].out \in SegmenterOutcomes]_vars

\* stop() has returned to its caller, is_running is cleared, and the worker is
\* still inside downloader.download with is_downloading set.
C17_Witness ==
    /\ hnd = [op |-> "idle"]
    /\ ~mons[1].is_running
    /\ mons[1].is_downloading
    /\ Len(thr) = 1
    /\ thr[1].pc = "download"


\* C30: each worker goes from a cycle, however it ended (skipped, nothing
\* found, downloaded, raised), to one time.sleep and from there to the test
\* of the while and the next cycle; and no check_if_live call of a monitor
\* follows another call of the same monitor unless a time.sleep of the monitor
\* has ended in between.
C30_OneWaitBetweenCycles ==
    /\ [][\A t \in DOMAIN thr :
             /\ (thr[t].pc \in {"cycle", "check_if_live", "download"} /\ thr'[t] # thr[t]) =>
                    thr'[t].pc \in {"check_if_live", "download", "sleep"}
             /\ (thr[t].pc = "sleep" /\ thr'[t] # thr[t]) => thr'[t].pc = "while"
             /\ (thr[t].pc # "while" /\ thr'[t].pc = "while") => thr[t].pc = "sleep"
             /\ (thr[t].pc # "cycle" /\ thr'[t].pc = "cycle") => thr[t].pc = "while"]_vars
    /\ [][\A t \in DOMAIN thr :
             (thr[t].pc = "cycle" /\ thr'[t].pc = "check_if_live") =>
                 thr[t].mon \notin unwaited]_vars


\* C31: once stop() has cleared is_running, each worker of the monitor leaves
\* its loop, unless start() sets is_running again before the worker has
\* tested it; the calls the worker is in are taken to return.
C31_StopTerminates ==
    \A t \in ThreadIds :
        (t \in DOMAIN thr /\ ~mons[thr[t].mon].is_running)
            ~> (/\ t \in DOMAIN thr
                /\ thr[t].pc = "exited" \/ mons[thr[t].mon].is_running)

\* stop() was called while the worker was inside the download; the download
\* came back, the worker slept, tested is_running and left its loop.
C31_Witness ==
    /\ Len(thr) = 1
    /\ thr[1].pc = "exited"
    /\ ~mons[1].is_running
    /\ ~mons[1].is_downloading
    /\ hnd = [op |-> "idle"]


\* C32: a worker that tests is_running after stop() has cleared it leaves the
\* loop, so that after the request it goes through no more than the cycle
\* whose test came before it; and a worker whose start() has been followed by
\* a stop() (a worker that is not the thread of the monitor's latest start())
\* begins no cycle from the test of the while: when stop() came, it was past
\* the test, or it has tested is_running since.
C32_OneCycleAfterStop ==
    /\ [][\A t \in DOMAIN thr :
             (/\ thr[t].pc = "while"
              /\ ~mons[thr[t].mon].is_running
              /\ thr'[t] # thr[t]) => thr'[t].pc = "exited"]_vars
    /\ [][\A t \in DOMAIN thr :
             (thr[t].pc = "while" /\ thr'[t].pc = "cycle") =>
                 mons[thr[t].mon].thread = t]_vars

-----------------------------------------------------------------------------
(* channel_manager.py: the channels file, as the handlers below use it *)

Channel1 == "https://www.youtube.com/@Channel1"

\* The channels a channels file holds when the server starts.
StoredChannels ==
    { <<[id |-> "channel1", name |-> "Channel 1", url |-> <<Channel1>>, enabled |-> e]>> :
      e \in BOOLEAN }

\* The channel ids a request can name.
ChannelIds == {"channel1"}

\* The global settings a channels file holds when the server starts: the
\* defaults, or what a PATCH /api/settings of an earlier run has written.
StoredSettings ==
    { GlobalSettingsDTO,
      [GlobalSettingsDTO EXCEPT !.split_time_minutes = 0],
      [GlobalSettingsDTO EXCEPT !.check_interval_seconds = 0] }

\* list_channels(enabled_only=False)
list_all_channels == store

\* list_channels(enabled_only=True)
list_enabled_channels == SelectSeq(store, LAMBDA ch : ch.enabled)

\* get_channel
get_channel(id) == store[CHOOSE i \in DOMAIN store : store[i].id = id]

StoreIds == { store[i].id : i \in DOMAIN store }

\* update_channel(channel_id, enabled=enabled): the channels file afterwards
update_channel_enabled(id, enabled) ==
    [i \in DOMAIN store |->
        IF store[i].id = id THEN [store[i] EXCEPT !.enabled = enabled] ELSE store[i]]

\* remove_channel(channel_id): the channels file afterwards
remove_channel(id) == SelectSeq(store, LAMBDA ch : ch.id # id)

-----------------------------------------------------------------------------
(* multi_channel_monitor.py: MultiChannelMonitor.  monitor_threads is a     *)
(* dict: a sequence of items in insertion order.                           *)

Keys(d) == { d[i].id : i \in DOMAIN d }
DictGet(d, id) == d[CHOOSE i \in DOMAIN d : d[i].id = id].mon
DictSet(d, id, m) ==
    IF id \in Keys(d)
    THEN [i \in DOMAIN d |-> IF d[i].id = id THEN [id |-> id, mon |-> m] ELSE d[i]]
    ELSE Append(d, [id |-> id, mon |-> m])
DictDel(d, id) == SelectSeq(d, LAMBDA e : e.id # id)

\* MultiChannelMonitor.__init__, with the thread that runs its start():
\* pc is "start" (before list_channels), "flag" (before is_running = True),
\* "launch" (the for loop, before constructing the monitor of channels[i]),
\* "register" (monitor started, before monitor_threads[channel.id] = ...),
\* "alive" (the keep-alive loop) and "done" (start has returned); "new" is an
\* object whose start() no thread has been made to run.
MultiChannelMonitor ==
    [is_running      |-> FALSE,
     monitor_threads |-> <<>>,
     pc              |-> "start",
     channels        |-> <<>>,
     global_settings |-> PyNone,
     i               |-> 1,
     new             |-> 0]

Idle == [op |-> "idle"]

\* A ChannelMonitorThread is constructed for `channel` with `settings` by
\* supervisor s, and its start() is called.
ConstructAndStart(channel, settings, s) ==
    /\ mons' = Append(mons,
                      [ChannelMonitorThread(
                          [id |-> channel.id, name |-> channel.name, url |-> channel.url],
                          settings, s)
                       EXCEPT !.is_running = TRUE, !.thread = Len(thr) + 1])
    /\ thr' = Append(thr, NewThread(Len(mons) + 1))

\* MultiChannelMonitor.start without "if not channels: return".
start_list_channels_unchecked(s) ==
    /\ s \in DOMAIN sups
    /\ sups[s].pc = "start"
    /\ sups' = [sups EXCEPT ![s].pc = "flag", ![s].channels = list_enabled_channels]
    /\ UNCHANGED <<store, web, hnd, ops, mons, thr>>
    /\ UNCHANGED <<ckVars, sdVars, cmVars, fnVars, hsVars, lmVars>>

\* MultiChannelMonitor.start: list_channels(enabled_only=True), the early return
start_list_channels(s) ==
    /\ s \in DOMAIN sups
    /\ sups[s].pc = "start"
    /\ sups' = [sups EXCEPT ![s].pc = IF list_enabled_channels = <<>> THEN "done" ELSE "flag",
                            ![s].channels = list_enabled_channels]
    /\ UNCHANGED <<store, web, hnd, ops, mons, thr>>
    /\ UNCHANGED <<ckVars, sdVars, cmVars, fnVars, hsVars, lmVars>>

\* MultiChannelMonitor.start: get_global_settings(), which raises for stored
\* settings that GlobalSettingsDTO rejects, then self.is_running = True
start_set_running(s) ==
    /\ s \in DOMAIN sups
    /\ sups[s].pc = "flag"
    /\ sups' = IF settings_post_init(global_settings) # PyNone
               THEN [sups EXCEPT ![s].pc = "done"]
               ELSE [sups EXCEPT ![s].pc = "launch", ![s].is_running = TRUE,
                                 ![s].global_settings = global_settings]
    /\ UNCHANGED <<store, web, hnd, ops, mons, thr>>
    /\ UNCHANGED <<ckVars, sdVars, cmVars, fnVars, hsVars, lmVars>>

\* MultiChannelMonitor.start, the for loop: the monitor of the next channel is
\* constructed and started
start_launch(s) ==
    /\ s \in DOMAIN sups
    /\ sups[s].pc = "launch"
    /\ sups[s].i <= Len(sups[s].channels)
    /\ ConstructAndStart(sups[s].channels[sups[s].i], sups[s].global_settings, s)
    /\ sups' = [sups EXCEPT ![s].pc = "register", ![s].new = Len(mons) + 1]
    /\ UNCHANGED <<store, web, hnd, ops>>
    /\ UNCHANGED <<ckVars, sdVars, cmVars, fnVars, hsVars, lmVars>>

\* MultiChannelMonitor.start, the for loop: self.monitor_threads[channel.id] = monitor_thread
start_register(s) ==
    /\ s \in DOMAIN sups
    /\ sups[s].pc = "register"
    /\ sups' = [sups EXCEPT
                  ![s].pc = "launch",
                  ![s].i = @ + 1,
                  ![s].new = 0,
                  ![s].monitor_threads =
                      DictSet(@, sups[s].channels[sups[s].i].id, sups[s].new)]
    /\ UNCHANGED <<store, web, hnd, ops, mons, thr>>
    /\ UNCHANGED <<ckVars, sdVars, cmVars, fnVars, hsVars, lmVars>>

\* MultiChannelMonitor.start: all monitors started, the keep-alive loop begins
start_launched(s) ==
    /\ s \in DOMAIN sups
    /\ sups[s].pc = "launch"
    /\ sups[s].i > Len(sups[s].channels)
    /\ sups' = [sups EXCEPT ![s].pc = "alive"]
    /\ UNCHANGED <<store, web, hnd, ops, mons, thr>>
    /\ UNCHANGED <<ckVars, sdVars, cmVars, fnVars, hsVars, lmVars>>

\* MultiChannelMonitor.start: "while self.is_running: time.sleep(1)" ends
start_return(s) ==
    /\ s \in DOMAIN sups
    /\ sups[s].pc = "alive"
    /\ ~sups[s].is_running
    /\ sups' = [sups EXCEPT ![s].pc = "done"]
    /\ UNCHANGED <<store, web, hnd, ops, mons, thr>>
    /\ UNCHANGED <<ckVars, sdVars, cmVars, fnVars, hsVars, lmVars>>

StartStep(s) ==
    \/ start_list_channels(s)
    \/ start_set_running(s)
    \/ start_launch(s)
    \/ start_register(s)
    \/ start_launched(s)
    \/ start_return(s)

\* add_channel_and_start_monitoring without the test
\* "if channel.id in self.monitor_threads".
add_channel_and_start_monitoring_again(s, channel) ==
    IF ~sups[s].is_running
    THEN /\ hnd' = Idle
         /\ UNCHANGED <<mons, thr>>
    ELSE /\ ConstructAndStart(channel, global_settings, s)
         /\ hnd' = [op |-> "add", sup |-> s, id |-> channel.id, mon |-> Len(mons) + 1]

\* add_channel_and_start_monitoring without "if not self.is_running: return"
add_channel_and_start_monitoring_unconditional(s, channel) ==
    IF channel.id \in Keys(sups[s].monitor_threads)
    THEN /\ hnd' = Idle
         /\ UNCHANGED <<mons, thr>>
    ELSE /\ ConstructAndStart(channel, global_settings, s)
         /\ hnd' = [op |-> "add", sup |-> s, id |-> channel.id, mon |-> Len(mons) + 1]

\* add_channel_and_start_monitoring up to the return of monitor_thread.start();
\* get_global_settings() raises for stored settings that GlobalSettingsDTO
\* rejects
add_channel_and_start_monitoring(s, channel) ==
    IF ~sups[s].is_running \/ channel.id \in Keys(sups[s].monitor_threads)
    THEN /\ hnd' = Idle
         /\ UNCHANGED <<mons, thr>>
    ELSE IF settings_post_init(global_settings) # PyNone
    THEN /\ hnd' = Idle
         /\ UNCHANGED <<mons, thr>>
    ELSE /\ ConstructAndStart(channel, global_settings, s)
         /\ hnd' = [op |-> "add", sup |-> s, id |-> channel.id, mon |-> Len(mons) + 1]

\* add_channel_and_start_monitoring: self.monitor_threads[channel.id] = monitor_thread
add_channel_register ==
    /\ hnd.op = "add"
    /\ sups' = [sups EXCEPT ![hnd.sup].monitor_threads = DictSet(@, hnd.id, hnd.mon)]
    /\ hnd' = Idle
    /\ UNCHANGED <<store, web, ops, mons, thr>>
    /\ UNCHANGED <<ckVars, sdVars, cmVars, fnVars, hsVars, lmVars>>

\* remove_channel_and_stop_monitoring up to the join of stop(); `delete` says
\* that delete_channel is the caller
remove_channel_and_stop_monitoring(s, id, delete) ==
    IF id \in Keys(sups[s].monitor_threads)
    THEN /\ thread_stop(DictGet(sups[s].monitor_threads, id))
         /\ hnd' = [op |-> "remove", sup |-> s, id |-> id,
                    mon |-> DictGet(sups[s].monitor_threads, id), delete |-> delete]
    ELSE /\ hnd' = Idle
         /\ UNCHANGED <<mons, thr>>

\* remove_channel_and_stop_monitoring with monitor_threads.clear() in the place
\* of the del.
remove_channel_unregister_cleared ==
    /\ hnd.op = "remove"
    /\ thread_joined(hnd.mon)
    /\ sups' = [sups EXCEPT ![hnd.sup].monitor_threads = <<>>]
    /\ store' = IF hnd.delete THEN remove_channel(hnd.id) ELSE store
    /\ hnd' = Idle
    /\ UNCHANGED <<web, ops, mons, thr>>
    /\ UNCHANGED <<ckVars, sdVars, cmVars, fnVars, hsVars, lmVars>>

\* remove_channel_and_stop_monitoring from the return of stop():
\* del self.monitor_threads[channel_id]; then, in delete_channel,
\* channel_manager.remove_channel
remove_channel_unregister ==
    /\ hnd.op = "remove"
    /\ thread_joined(hnd.mon)
    /\ sups' = [sups EXCEPT ![hnd.sup].monitor_threads = DictDel(@, hnd.id)]
    /\ store' = IF hnd.delete THEN remove_channel(hnd.id) ELSE store
    /\ hnd' = Idle
    /\ UNCHANGED <<web, ops, mons, thr>>
    /\ UNCHANGED <<ckVars, sdVars, cmVars, fnVars, hsVars, lmVars>>

\* MultiChannelMonitor.stop up to the join of the first stop(): the flag is
\* cleared and the iteration over monitor_threads.values() begins; over an empty
\* dict it ends at once, and monitor_threads.clear() follows.  at_call keeps
\* the dict as it was when stop was called.
stop(s) ==
    LET d == sups[s].monitor_threads IN
    /\ sups' = [sups EXCEPT ![s].is_running = FALSE]
    /\ IF d = <<>>
       THEN /\ hnd' = Idle
            /\ UNCHANGED <<mons, thr>>
       ELSE /\ thread_stop(d[1].mon)
            /\ hnd' = [op |-> "stop", sup |-> s, k |-> 1, mon |-> d[1].mon,
                       size |-> Len(d), at_call |-> d]

\* MultiChannelMonitor.stop, the next step of the iteration, from the return of
\* the stop() before: a dict that changed size raises RuntimeError out of
\* stop; otherwise the next monitor is stopped, up to the join of its stop(),
\* or, at the end, monitor_threads.clear()
stop_iterate ==
    /\ hnd.op = "stop"
    /\ thread_joined(hnd.mon)
    /\ LET d == sups[hnd.sup].monitor_threads IN
       IF Len(d) # hnd.size
       THEN /\ hnd' = Idle
            /\ UNCHANGED <<sups, mons, thr>>
       ELSE IF hnd.k < Len(d)
       THEN /\ thread_stop(d[hnd.k + 1].mon)
            /\ hnd' = [hnd EXCEPT !.k = @ + 1, !.mon = d[hnd.k + 1].mon]
            /\ UNCHANGED sups
       ELSE /\ sups' = [sups EXCEPT ![hnd.sup].monitor_threads = <<>>]
            /\ hnd' = Idle
            /\ UNCHANGED <<mons, thr>>
    /\ UNCHANGED <<store, web, ops>>
    /\ UNCHANGED <<ckVars, sdVars, cmVars, fnVars, hsVars, lmVars>>

-----------------------------------------------------------------------------
(* web_api.py: the handlers.  They run one at a time on the event loop,     *)
(* beside the thread of MultiChannelMonitor.start and the monitors'        *)
(* workers; a handler that blocks (a join, the start of a thread) is split  *)
(* there.  A request that is refused before it changes anything is left    *)
(* out.                                                                    *)

SupervisorRunning == web # 0 /\ sups[web].is_running

\* POST /api/monitor/start
start_monitor ==
    /\ hnd = Idle
    /\ ops < MaxOps
    /\ ~SupervisorRunning
    /\ list_enabled_channels # <<>>
    /\ sups' = Append(sups, MultiChannelMonitor)
    /\ web' = Len(sups) + 1
    /\ ops' = ops + 1
    /\ UNCHANGED <<store, hnd, mons, thr>>
    /\ UNCHANGED <<ckVars, sdVars, cmVars, fnVars, hsVars, lmVars>>

\* PATCH /api/channels/{channel_id} with enabled given
update_channel(id, enabled) ==
    /\ hnd = Idle
    /\ ops < MaxOps
    /\ id \in StoreIds
    /\ store' = update_channel_enabled(id, enabled)
    /\ ops' = ops + 1
    /\ IF SupervisorRunning
       THEN IF enabled
            THEN add_channel_and_start_monitoring(web,
                     [get_channel(id) EXCEPT !.enabled = enabled])
            ELSE remove_channel_and_stop_monitoring(web, id, FALSE)
       ELSE /\ hnd' = Idle
            /\ UNCHANGED <<mons, thr>>
    /\ UNCHANGED <<web, sups>>
    /\ UNCHANGED <<ckVars, sdVars, cmVars, fnVars, hsVars, lmVars>>

\* DELETE /api/channels/{channel_id}; of a channel that is neither stored nor
\* monitored it changes nothing
delete_channel(id) ==
    /\ hnd = Idle
    /\ ops < MaxOps
    /\ id \in StoreIds \/ (SupervisorRunning /\ id \in Keys(sups[web].monitor_threads))
    /\ ops' = ops + 1
    /\ IF SupervisorRunning /\ id \in Keys(sups[web].monitor_threads)
       THEN /\ remove_channel_and_stop_monitoring(web, id, TRUE)
            /\ UNCHANGED store
       ELSE /\ store' = remove_channel(id)
            /\ hnd' = Idle
            /\ UNCHANGED <<mons, thr>>
    /\ UNCHANGED <<web, sups>>
    /\ UNCHANGED <<ckVars, sdVars, cmVars, fnVars, hsVars, lmVars>>

\* POST /api/monitor/stop
stop_monitor ==
    /\ hnd = Idle
    /\ ops < MaxOps
    /\ SupervisorRunning
    /\ stop(web)
    /\ ops' = ops + 1
    /\ UNCHANGED <<store, web>>
    /\ UNCHANGED <<ckVars, sdVars, cmVars, fnVars, hsVars, lmVars>>

Handler ==
    \/ start_monitor
    \/ stop_monitor
    \/ stop_iterate
    \/ \E id \in ChannelIds, enabled \in BOOLEAN : update_channel(id, enabled)
    \/ \E id \in ChannelIds : delete_channel(id)
    \/ add_channel_register
    \/ remove_channel_unregister

Init ==
    /\ ck_pc = "returned"
    /\ ck_url = <<TestChannel>>
    /\ ck_world = [live |-> PyNone, streams |-> PyNone, page |-> PyNone]
    /\ ck_k = 1
    /\ ck_calls = <<>>
    /\ ck_ret = PyNone
    /\ mons = <<>>
    /\ thr = <<>>
    /\ store \in StoredChannels
    /\ web = 0
    /\ sups = <<>>
    /\ hnd = Idle
    /\ ops = 0
    /\ sd = PyNone
    /\ global_settings \in StoredSettings
    /\ resp = PyNone
    /\ su = PyNone
    /\ lsi = PyNone
    /\ unwaited = {}
    /\ lsm = PyNone

Next ==
    \/ Handler
    \/ \E s \in SupervisorIds : StartStep(s)
    \/ \E t \in ThreadIds : WorkerStep(t)

Spec == Init /\ [][Next]_vars

-----------------------------------------------------------------------------
(* Properties of the running program, under Spec *)

\* The workers inside downloader.download for a monitor of channel id.
Recordings(id) ==
    { t \in DOMAIN thr : mons[thr[t].mon].channel.id = id /\ thr[t].pc = "download" }

\* The monitors of channel id that a MultiChannelMonitor constructed and
\* started, and whose is_running is set.
LiveMonitors(id) ==
    { m \in DOMAIN mons :
        mons[m].owner \in DOMAIN sups /\ mons[m].channel.id = id /\ mons[m].is_running }

\* C7: of one channel id, at most one call of downloader.download is in
\* progress at any time.
C7_OneRecordingPerSource == \A id \in ChannelIds : Cardinality(Recordings(id)) <= 1

\* C8: of one channel id, at most one monitor that a MultiChannelMonitor
\* started has is_running set.
C8_OneLiveMonitorPerSource ==
    \A id \in ChannelIds : Cardinality(LiveMonitors(id)) <= 1

\* What check_if_live handed to the cycle of worker t is (True, stream_info)
\* with a stream_info that is not None.
DetectedLive(t) ==
    /\ thr[t].det # Raised
    /\ thr[t].det.ret[1]
    /\ thr[t].det.ret[2] # PyNone

C24_ValidSettings ==
    \A m \in DOMAIN mons :
        mons[m].is_running =>
            /\ mons[m].global_settings.check_interval_seconds >= 1
            /\ mons[m].global_settings.split_mode \in {"time", "size", "none"}
            /\ mons[m].global_settings.split_time_minutes >= 1
            /\ mons[m].global_settings.split_size_mb >= 1


\* The MultiChannelMonitor objects that POST /api/monitor/start has started
\* and nothing has stopped: the thread of start() has yet to read the channels
\* or to set is_running, or is_running is set.
ActiveSupervisors ==
    { s \in DOMAIN sups : sups[s].pc \in {"start", "flag"} \/ sups[s].is_running }

\* C34: at most one MultiChannelMonitor is active at a time, and the running
\* monitors all belong to one MultiChannelMonitor: a POST /api/monitor/start
\* made while a started MultiChannelMonitor has not been stopped creates
\* neither a second one nor a second set of monitors.
C34_OneSupervisor ==
    /\ Cardinality(ActiveSupervisors) <= 1
    /\ \A m, n \in DOMAIN mons :
          (mons[m].is_running /\ mons[n].is_running) => mons[m].owner = mons[n].owner


\* C36: when no request is in progress, every key of the monitor_threads of
\* the MultiChannelMonitor of the web application is the id of a channel that
\* the channels file holds with enabled true.
C36_RegisteredAreEnabled ==
    (hnd = Idle /\ web # 0) =>
        \A id \in Keys(sups[web].monitor_threads) :
            \E i \in DOMAIN store : store[i].id = id /\ store[i].enabled

-----------------------------------------------------------------------------
(* multi_channel_monitor.py: one MultiChannelMonitor over a channels file   *)
(* of two channels, used as a class.  start() blocks in its keep-alive     *)
(* loop, so it runs on a thread of its own; the other methods are called   *)
(* one at a time from another thread, whatever start() is doing, and the   *)
(* monitors' workers run beside both.                                      *)

Channel2 == "https://www.youtube.com/@Channel2"

ChannelDTOs ==
    [channel1 |-> [id |-> "channel1", name |-> "Channel 1", url |-> <<Channel1>>],
     channel2 |-> [id |-> "channel2", name |-> "Channel 2", url |-> <<Channel2>>]]

\* The channels files of the two channels, each enabled or not.
FleetStores ==
    { << [id |-> "channel1", name |-> "Channel 1", url |-> <<Channel1>>, enabled |-> e1],
         [id |-> "channel2", name |-> "Channel 2", url |-> <<Channel2>>, enabled |-> e2] >> :
      e1 \in BOOLEAN, e2 \in BOOLEAN }

\* The channel ids a caller can name: the two stored ones, and one that no
\* channel has.
FleetIds == {"channel1", "channel2", "unknown-channel"}

\* A thread is made to run start(); none is inside start() already
CallFleetStart ==
    /\ hnd = Idle
    /\ ops < MaxOps
    /\ sups[1].pc \in {"new", "done"}
    /\ sups' = [sups EXCEPT ![1].pc = "start", ![1].channels = <<>>, ![1].i = 1]
    /\ ops' = ops + 1
    /\ UNCHANGED <<store, web, hnd, mons, thr>>
    /\ UNCHANGED <<ckVars, sdVars, cmVars, fnVars, hsVars, lmVars>>

\* stop() is called
CallFleetStop ==
    /\ hnd = Idle
    /\ ops < MaxOps
    /\ stop(1)
    /\ ops' = ops + 1
    /\ UNCHANGED <<store, web>>
    /\ UNCHANGED <<ckVars, sdVars, cmVars, fnVars, hsVars, lmVars>>

\* add_channel_and_start_monitoring(channel) is called; resp keeps the call and
\* the is_running that its first line read
CallFleetAdd(id) ==
    /\ hnd = Idle
    /\ ops < MaxOps
    /\ id \in DOMAIN ChannelDTOs
    /\ add_channel_and_start_monitoring(1, ChannelDTOs[id])
    /\ ops' = ops + 1
    /\ resp' = [request |-> [op |-> "add_channel_and_start_monitoring", id |-> id],
                is_running |-> sups[1].is_running]
    /\ UNCHANGED <<store, web, sups, global_settings>>
    /\ UNCHANGED <<ckVars, sdVars, fnVars, hsVars, lmVars>>

\* remove_channel_and_stop_monitoring(channel_id) is called
CallFleetRemove(id) ==
    /\ hnd = Idle
    /\ ops < MaxOps
    /\ remove_channel_and_stop_monitoring(1, id, FALSE)
    /\ ops' = ops + 1
    /\ UNCHANGED <<store, web, sups>>
    /\ UNCHANGED <<ckVars, sdVars, cmVars, fnVars, hsVars, lmVars>>

InitFleet ==
    /\ ck_pc = "returned"
    /\ ck_url = <<TestChannel>>
    /\ ck_world = [live |-> PyNone, streams |-> PyNone, page |-> PyNone]
    /\ ck_k = 1
    /\ ck_calls = <<>>
    /\ ck_ret = PyNone
    /\ mons = <<>>
    /\ thr = <<>>
    /\ store \in FleetStores
    /\ web = 0
    /\ sups = <<[MultiChannelMonitor EXCEPT !.pc = "new"]>>
    /\ hnd = Idle
    /\ ops = 0
    /\ sd = PyNone
    /\ global_settings = GlobalSettingsDTO
    /\ resp = PyNone
    /\ su = PyNone
    /\ lsi = PyNone
    /\ unwaited = {}
    /\ lsm = PyNone

NextFleet ==
    \/ CallFleetStart
    \/ CallFleetStop
    \/ \E id \in FleetIds : CallFleetAdd(id)
    \/ \E id \in FleetIds : CallFleetRemove(id)
    \/ add_channel_register
    \/ remove_channel_unregister
    \/ stop_iterate
    \/ \E s \in SupervisorIds : StartStep(s)
    \/ \E t \in ThreadIds : WorkerStep(t)

SpecFleet == InitFleet /\ [][NextFleet]_vars

-----------------------------------------------------------------------------
(* Properties of the MultiChannelMonitor and its monitors, under SpecFleet *)

\* The cycle of worker t has had an exception from check_if_live or from
\* downloader.download.
CycleRaised(t) == thr[t].det = Raised \/ thr[t].out = Raised

\* C11: a cycle in which check_if_live or downloader.download raised is at the
\* sleep of its loop, not ended; the step in which the exception arrives
\* changes no other worker, no other monitor and nothing of the
\* MultiChannelMonitor; the sleep is followed by the loop test, and the loop
\* test by the next cycle as long as is_running is set.
C11_ExceptionContained ==
    /\ [](\A t \in DOMAIN thr : CycleRaised(t) => thr[t].pc = "sleep")
    /\ [][\A t \in DOMAIN thr :
             (thr[t].pc \in {"check_if_live", "download"}
                  /\ (thr'[t].det = Raised \/ thr'[t].out = Raised)) =>
                 /\ thr'[t].pc = "sleep"
                 /\ \A u \in DOMAIN thr \ {t} : thr'[u] = thr[u]
                 /\ \A m \in DOMAIN mons \ {thr[t].mon} : mons'[m] = mons[m]
                 /\ sups' = sups]_vars
    /\ [][\A t \in DOMAIN thr :
             (thr[t].pc = "sleep" /\ thr'[t] # thr[t]) => thr'[t].pc = "while"]_vars
    /\ [][\A t \in DOMAIN thr :
             (thr[t].pc = "while" /\ thr'[t] # thr[t]) =>
                 thr'[t].pc = IF mons[thr[t].mon].is_running THEN "cycle" ELSE "exited"]_vars

\* The cycle of one channel's monitor has had an exception from
\* downloader.download, that of the other channel's monitor one from
\* check_if_live, and a third worker is inside downloader.download.
C11_Witness ==
    \E t, u, v \in DOMAIN thr :
        /\ mons[thr[t].mon].channel.id # mons[thr[u].mon].channel.id
        /\ thr[t].out = Raised /\ thr[t].pc = "sleep"
        /\ thr[u].det = Raised /\ thr[u].pc = "sleep"
        /\ v \notin {t, u}
        /\ thr[v].pc = "download"

\* The items of monitor_threads other than that of channel id, in order.
OtherEntries(d, id) == SelectSeq(d, LAMBDA e : e.id # id)

\* C12: a call of remove_channel_and_stop_monitoring(id) for a registered id
\* clears is_running of the monitor registered under id and changes no other
\* monitor, no worker and, up to the return of that stop(), nothing of the
\* MultiChannelMonitor; the del that follows finds the key, takes that item
\* out of monitor_threads and changes no other item, no monitor and no worker.
\* A call for an id that is not registered changes no monitor, no worker and
\* nothing of the MultiChannelMonitor, and has returned.
C12_RemoveFrame ==
    /\ [][\A id \in FleetIds :
             CallFleetRemove(id) =>
                 IF id \in Keys(sups[1].monitor_threads)
                 THEN LET m == DictGet(sups[1].monitor_threads, id) IN
                      /\ mons' = [mons EXCEPT ![m].is_running = FALSE]
                      /\ thr' = thr
                      /\ sups' = sups
                 ELSE /\ mons' = mons
                      /\ thr' = thr
                      /\ sups' = sups
                      /\ hnd' = Idle]_vars
    /\ [][remove_channel_unregister =>
             LET d == sups[hnd.sup].monitor_threads IN
             /\ hnd.id \in Keys(d)
             /\ sups' = [sups EXCEPT ![hnd.sup].monitor_threads = OtherEntries(d, hnd.id)]
             /\ hnd.id \notin Keys(sups'[hnd.sup].monitor_threads)
             /\ mons' = mons
             /\ thr' = thr]_vars

\* remove_channel_and_stop_monitoring("channel1") has returned: channel1 is out
\* of monitor_threads and its monitor stopped, while the monitor of channel2
\* is registered, running and inside a download.
C12_Witness ==
    /\ hnd = Idle
    /\ sups[1].is_running
    /\ Keys(sups[1].monitor_threads) = {"channel2"}
    /\ \E m \in DOMAIN mons : mons[m].channel.id = "channel1" /\ ~mons[m].is_running
    /\ LET b == DictGet(sups[1].monitor_threads, "channel2") IN
       mons[b].is_running /\ mons[b].is_downloading

\* C13: a call of add_channel_and_start_monitoring for a channel whose id is a
\* key of monitor_threads constructs no monitor, starts no worker, leaves
\* monitor_threads and every monitor as they are, and has returned; and the
\* step that ends a call which did start a monitor leaves that monitor
\* registered under the channel's id, so that a second call for the same
\* channel is such a call.
C13_AddIdempotent ==
    /\ [][\A id \in DOMAIN ChannelDTOs :
             (CallFleetAdd(id) /\ id \in Keys(sups[1].monitor_threads)) =>
                 /\ mons' = mons
                 /\ thr' = thr
                 /\ sups' = sups
                 /\ hnd' = Idle]_vars
    /\ [][add_channel_register =>
             /\ hnd.id \in Keys(sups'[hnd.sup].monitor_threads)
             /\ DictGet(sups'[hnd.sup].monitor_threads, hnd.id) = hnd.mon]_vars

\* add_channel_and_start_monitoring has registered a monitor for channel2,
\* which the channels file has disabled, and has returned: the only monitor of
\* channel2 is the registered one.
C13_Witness ==
    /\ hnd = Idle
    /\ ~store[2].enabled
    /\ "channel2" \in Keys(sups[1].monitor_threads)
    /\ { m \in DOMAIN mons : mons[m].channel.id = "channel2" }
           = { DictGet(sups[1].monitor_threads, "channel2") }

\* C14: over a channels file with no enabled channel, the step of start() that
\* reads the list is its last: start() has returned, no monitor was
\* constructed and no worker started, monitor_threads is empty and is_running
\* is False; and whatever is called, such a MultiChannelMonitor never has a
\* monitor, a worker, a key, or is_running set.
C14_StartWithoutChannels ==
    /\ [](list_enabled_channels = <<>> =>
             /\ mons = <<>>
             /\ thr = <<>>
             /\ sups[1].monitor_threads = <<>>
             /\ ~sups[1].is_running
             /\ sups[1].pc \in {"new", "start", "done"})
    /\ [][(start_list_channels(1) /\ list_enabled_channels = <<>>) =>
             /\ sups' = [sups EXCEPT ![1].pc = "done"]
             /\ mons' = mons
             /\ thr' = thr]_vars

\* start() has returned over a channels file with no enabled channel.
C14_Witness ==
    /\ list_enabled_channels = <<>>
    /\ sups[1].pc = "done"
    /\ ~sups[1].is_running
    /\ sups[1].monitor_threads = <<>>
    /\ mons = <<>>

\* The ids of the channels the channels file has enabled; under SpecFleet the
\* file does not change.
EnabledIds == { store[i].id : i \in { j \in DOMAIN store : store[j].enabled } }

\* start() has been called on every monitor in monitor_threads: it has a worker.
RegisteredStarted ==
    \A k \in DOMAIN sups[1].monitor_threads :
        mons[sups[1].monitor_threads[k].mon].thread # 0

\* Every monitor in monitor_threads has is_running set.
RegisteredRunning ==
    \A k \in DOMAIN sups[1].monitor_threads :
        mons[sups[1].monitor_threads[k].mon].is_running

C16_StopAllClears ==
    /\ [][(CallFleetStop /\ sups[1].monitor_threads = <<>>) =>
             /\ sups' = [sups EXCEPT ![1].is_running = FALSE]
             /\ mons' = mons
             /\ thr' = thr
             /\ hnd' = Idle]_vars
    /\ [][(hnd.op = "stop" /\ hnd'.op = "idle") =>
             /\ sups'[1].monitor_threads = <<>>
             /\ ~sups'[1].is_running
             /\ \A k \in DOMAIN hnd.at_call :
                    ~mons'[hnd.at_call[k].mon].is_running]_vars

\* C27: a step in which a worker moves (the test of the while, _monitor_cycle,
\* the return of check_if_live, the return of the download, the end of the
\* sleep, the exit) leaves every monitor_threads as it was; and a step that
\* changes a monitor_threads is a step of start() at its registration, or of
\* add_channel_and_start_monitoring, remove_channel_and_stop_monitoring or
\* stop() on the calling thread, and moves no worker.
C27_RegistryFrame ==
    /\ [][(\E t \in DOMAIN thr : thr'[t] # thr[t]) =>
             \A s \in DOMAIN sups :
                 sups'[s].monitor_threads = sups[s].monitor_threads]_vars
    /\ [][\A s \in DOMAIN sups :
             sups'[s].monitor_threads # sups[s].monitor_threads =>
                 /\ \/ sups[s].pc = "register"
                    \/ hnd.op \in {"add", "remove", "stop"}
                 /\ \A t \in DOMAIN thr : thr'[t] = thr[t]]_vars

\* A worker has left its loop while its monitor is still a value of
\* monitor_threads: remove_channel_and_stop_monitoring has not yet reached its
\* del.
C27_Witness ==
    \E t \in DOMAIN thr :
        /\ thr[t].pc = "exited"
        /\ \E i \in DOMAIN sups[1].monitor_threads :
               sups[1].monitor_threads[i].mon = thr[t].mon
        /\ hnd.op = "remove"

\* C28: add_channel_and_start_monitoring called on a MultiChannelMonitor whose
\* is_running is False returns at once: no ChannelMonitorThread is constructed,
\* no worker is started, no monitor is changed, and monitor_threads (with the
\* rest of the MultiChannelMonitor) is as it was.
C28_AddWhenStopped ==
    [][\A id \in DOMAIN ChannelDTOs :
          (CallFleetAdd(id) /\ ~sups[1].is_running) =>
              /\ mons' = mons
              /\ thr' = thr
              /\ sups' = sups
              /\ hnd' = Idle]_vars

\* add_channel_and_start_monitoring has been called on a MultiChannelMonitor
\* that was never started, found is_running False and returned: there is no
\* monitor, no worker and no key.
C28_Witness ==
    /\ resp # PyNone
    /\ ~resp.is_running
    /\ hnd = Idle
    /\ sups[1].pc = "new"
    /\ ~sups[1].is_running
    /\ mons = <<>>
    /\ thr = <<>>
    /\ sups[1].monitor_threads = <<>>

\* C35: while a MultiChannelMonitor that start() had set running is stopped
\* and no stop() is in progress, its monitor_threads is empty and none of the
\* monitors it constructed has is_running set, whatever start() and
\* add_channel_and_start_monitoring were doing when stop() was called; and the
\* iteration of stop() never ends by the RuntimeError of a dict that changed
\* size.
C35_StopAllFinal ==
    /\ [](\A s \in DOMAIN sups :
            (/\ sups[s].pc \in {"launch", "register", "alive", "done"}
             /\ ~sups[s].is_running
             /\ hnd.op # "stop") =>
                /\ sups[s].monitor_threads = <<>>
                /\ \A m \in DOMAIN mons : mons[m].owner = s => ~mons[m].is_running)
    /\ [][(hnd.op = "stop" /\ hnd'.op = "idle") =>
             Len(sups[hnd.sup].monitor_threads) = hnd.size]_vars

-----------------------------------------------------------------------------
(* Python numbers.  An int (Python's ints have no width) is a sequence of  *)
(* limbs in base 2^13, lowest first, without leading zeros: what is        *)
(* computed below stays under 2^65.  A float is m * 2^e with m an int of   *)
(* at most DoubleBits bits.                                                *)

DoubleBits == 53
LimbBits == 12 + 1
Base == 2 ^ LimbBits

\* The int of a number of the model
RECURSIVE PyInt(_)
PyInt(n) == IF n = 0 THEN <<>> ELSE <<n % Base>> \o PyInt(n \div Base)

\* The number of an int that is small enough
RECURSIVE Val(_)
Val(a) == IF a = <<>> THEN 0 ELSE a[1] + Base * Val(Tail(a))

RECURSIVE Trim(_)
Trim(a) ==
    IF a # <<>> /\ a[Len(a)] = 0 THEN Trim(SubSeq(a, 1, Len(a) - 1)) ELSE a

\* a * k + c, for k and c below Base
RECURSIVE MulAdd(_, _, _)
MulAdd(a, k, c) ==
    IF a = <<>>
    THEN PyInt(c)
    ELSE <<(a[1] * k + c) % Base>> \o MulAdd(Tail(a), k, (a[1] * k + c) \div Base)

int_mul(a, k) == Trim(MulAdd(a, k, 0))

\* divmod(a, d), for d below Base: long division, highest limb first
RECURSIVE DivMod(_, _)
DivMod(a, d) ==
    IF a = <<>>
    THEN [q |-> <<>>, r |-> 0]
    ELSE LET hi == DivMod(Tail(a), d)
         IN  [q |-> <<(Base * hi.r + a[1]) \div d>> \o hi.q,
              r |-> (Base * hi.r + a[1]) % d]

int_floordiv(a, d) == Trim(DivMod(a, d).q)

\* The number of bits of a number of the model, and of an int
RECURSIVE bit_length(_)
bit_length(n) == IF n = 0 THEN 0 ELSE 1 + bit_length(n \div 2)

int_bit_length(a) ==
    IF a = <<>> THEN 0 ELSE LimbBits * (Len(a) - 1) + bit_length(a[Len(a)])

\* a << k
int_lshift(a, k) ==
    IF a = <<>>
    THEN <<>>
    ELSE [i \in 1..(k \div LimbBits) |-> 0] \o int_mul(a, 2 ^ (k % LimbBits))

\* The limbs of a from limb k + 1 on: a >> (k * LimbBits)
DropLimbs(a, k) == IF k >= Len(a) THEN <<>> ELSE SubSeq(a, k + 1, Len(a))

\* a >> k
int_rshift(a, k) ==
    int_floordiv(DropLimbs(a, k \div LimbBits), 2 ^ (k % LimbBits))

\* a / d for a positive int a and a d below Base: the float nearest to the
\* quotient, a tie going to the even m.  Q is the quotient with at least two
\* bits more than a float holds, and t the number of its bits that have to go
\* (fewer than LimbBits, as a is below 2^65).
int_truediv(a, d) ==
    LET k    == IF DoubleBits + 2 - (int_bit_length(a) - bit_length(d)) > 0
                THEN DoubleBits + 2 - (int_bit_length(a) - bit_length(d))
                ELSE 0
        dm   == DivMod(int_lshift(a, k), d)
        Q    == Trim(dm.q)
        t    == int_bit_length(Q) - DoubleBits
        low  == Q[1] % (2 ^ t)
        m    == int_rshift(Q, t)
        up   == \/ 2 * low > 2 ^ t
                \/ 2 * low = 2 ^ t /\ (dm.r # 0 \/ m[1] % 2 = 1)
    IN  [m |-> IF up THEN Trim(MulAdd(m, 1, 1)) ELSE m, e |-> t - k]

\* int(f) for a positive float f: what follows the point is dropped
int_of_float(f) ==
    IF f.e >= 0 THEN int_lshift(f.m, f.e) ELSE int_rshift(f.m, 0 - f.e)

\* str(a): the decimal digits, highest first
RECURSIVE Digits(_)
Digits(a) ==
    IF a = <<>>
    THEN <<>>
    ELSE Digits(int_floordiv(a, 10)) \o <<DivMod(a, 10).r>>

str(a) == IF a = <<>> THEN <<0>> ELSE Digits(a)

-----------------------------------------------------------------------------
(* stream_downloader.py: StreamDownloader, one call of download()          *)

estimated_bitrate_mbps == 5

\* _download_with_realtime_split: split_seconds, for the policies "time" and
\* "size"
split_seconds(split_mode, split_time_minutes, split_size_mb) ==
    IF split_mode = "time"
    THEN int_mul(split_time_minutes, 60)
    ELSE int_of_float(int_truediv(int_mul(split_size_mb, 8), estimated_bitrate_mbps))

\* download without its try/except.
download_propagating(raised) == IF raised THEN Raised ELSE Return(TRUE)

\* download: what the caller gets when the body of the try ended by an
\* exception (raised) or reached its return
download_returns(raised) == IF raised THEN Return(FALSE) ELSE Return(TRUE)

\* The settings of a StreamDownloader: the defaults of __init__, with the one
\* its policy reads taken from the ordinary settings (1..MaxMinutes minutes,
\* 1..MaxSizeMB megabytes) or, for the size, from the large ones; "invalid" is
\* a policy that is none of the three.
LargeSizesMB == { MulAdd(int_lshift(PyInt(5), 48), 1, k) : k \in 0..MaxLargeOffset }

StreamDownloaders ==
    { [split_mode |-> "time", split_time_minutes |-> PyInt(n), split_size_mb |-> PyInt(500)] :
        n \in 1..MaxMinutes }
    \cup
    { [split_mode |-> "size", split_time_minutes |-> PyInt(30), split_size_mb |-> a] :
        a \in { PyInt(n) : n \in 1..MaxSizeMB } \cup LargeSizesMB }
    \cup
    { [split_mode |-> p, split_time_minutes |-> PyInt(30), split_size_mb |-> PyInt(500)] :
        p \in {"none", "invalid"} }

\* What ydl.extract_info hands back: an exception, or an info dict with
\* "requested_formats" (of two formats, or of one), with "url", or with neither.
InfoOutcomes ==
    { Raised,
      [requested_formats |-> <<[url |-> "https://video-url.com"],
                               [url |-> "https://audio-url.com"]>>],
      [requested_formats |-> <<[url |-> "https://video-url.com"]>>],
      [url |-> "https://direct-url.com/stream"],
      [id |-> "test123"] }

\* What subprocess.run hands back: a returncode, or an exception (no ffmpeg).
RunOutcomes == {Return(0), Return(1), Raised}

\* What ydl.download ends by.
PerformOutcomes == {Return(0), Raised}

\* download(stream_url, filename_prefix) is entered: pc is "download"; then
\* "perform_download" (inside ydl.download), "extract_info", "subprocess_run"
\* (inside each), "returned".
DownloadCall(settings) ==
    [split_mode         |-> settings.split_mode,
     split_time_minutes |-> settings.split_time_minutes,
     split_size_mb      |-> settings.split_size_mb,
     pc                 |-> "download",
     perform            |-> NoCall,
     info               |-> NoCall,
     cmd                |-> NoCall,
     run                |-> NoCall,
     ret                |-> NoCall]

\* download up to ydl.download (policy "none") or, in
\* _download_with_realtime_split, up to ydl.extract_info; ValueError for a
\* policy that is none of the three
download ==
    /\ sd # PyNone
    /\ sd.pc = "download"
    /\ sd' = IF sd.split_mode = "none"
             THEN [sd EXCEPT !.pc = "perform_download"]
             ELSE IF sd.split_mode \in {"time", "size"}
             THEN [sd EXCEPT !.pc = "extract_info"]
             ELSE [sd EXCEPT !.pc = "returned", !.ret = download_returns(TRUE)]
    /\ UNCHANGED <<ckVars, monVars, supVars, cmVars, fnVars, hsVars, lmVars>>

\* _perform_download ends
perform_download_done ==
    /\ sd # PyNone
    /\ sd.pc = "perform_download"
    /\ \E o \in PerformOutcomes :
          sd' = [sd EXCEPT !.pc = "returned", !.perform = o,
                           !.ret = download_returns(o = Raised)]
    /\ UNCHANGED <<ckVars, monVars, supVars, cmVars, fnVars, hsVars, lmVars>>

\* The ffmpeg command of _download_with_realtime_split, by what it holds: the
\* inputs, the -segment_time argument, the -map arguments
ffmpeg_cmd(info, seconds) ==
    IF "requested_formats" \in DOMAIN info
    THEN [i            |-> <<info.requested_formats[1].url, info.requested_formats[2].url>>,
          segment_time |-> str(seconds),
          map          |-> <<"0:v:0", "1:a:0">>]
    ELSE [i            |-> <<info.url>>,
          segment_time |-> str(seconds),
          map          |-> <<"0:v:0", "0:a:0">>]

\* _download_with_realtime_split from the return of extract_info up to
\* subprocess.run: IndexError for a second format that is not there, KeyError
\* for an info without "url"
extract_info_done ==
    /\ sd # PyNone
    /\ sd.pc = "extract_info"
    /\ \E info \in InfoOutcomes :
          IF \/ info = Raised
             \/ "requested_formats" \in DOMAIN info /\ Len(info.requested_formats) < 2
             \/ "requested_formats" \notin DOMAIN info /\ "url" \notin DOMAIN info
          THEN sd' = [sd EXCEPT !.pc = "returned", !.info = info,
                                !.ret = download_returns(TRUE)]
          ELSE sd' = [sd EXCEPT
                        !.pc = "subprocess_run",
                        !.info = info,
                        !.cmd = ffmpeg_cmd(info,
                                    split_seconds(sd.split_mode, sd.split_time_minutes,
                                                  sd.split_size_mb))]
    /\ UNCHANGED <<ckVars, monVars, supVars, cmVars, fnVars, hsVars, lmVars>>

\* _download_with_realtime_split from the return of subprocess.run
subprocess_run_done ==
    /\ sd # PyNone
    /\ sd.pc = "subprocess_run"
    /\ \E o \in RunOutcomes :
          sd' = [sd EXCEPT !.pc = "returned", !.run = o,
                           !.ret = download_returns(o # Return(0))]
    /\ UNCHANGED <<ckVars, monVars, supVars, cmVars, fnVars, hsVars, lmVars>>

InitDownload ==
    /\ ck_pc = "returned"
    /\ ck_url = <<TestChannel>>
    /\ ck_world = [live |-> PyNone, streams |-> PyNone, page |-> PyNone]
    /\ ck_k = 1
    /\ ck_calls = <<>>
    /\ ck_ret = PyNone
    /\ mons = <<>>
    /\ thr = <<>>
    /\ store = <<>>
    /\ web = 0
    /\ sups = <<>>
    /\ hnd = [op |-> "idle"]
    /\ ops = 0
    /\ sd \in { DownloadCall(settings) : settings \in StreamDownloaders }
    /\ global_settings = GlobalSettingsDTO
    /\ resp = PyNone
    /\ su = PyNone
    /\ lsi = PyNone
    /\ unwaited = {}
    /\ lsm = PyNone

NextDownload ==
    \/ download
    \/ perform_download_done
    \/ extract_info_done
    \/ subprocess_run_done

SpecDownload == InitDownload /\ [][NextDownload]_vars

-----------------------------------------------------------------------------
(* Properties of StreamDownloader, under SpecDownload *)

\* C18: the -segment_time argument of the ffmpeg command is the decimal
\* numeral of split_time_minutes * 60 under the policy "time", and of
\* split_size_mb * 8 // 5 under the policy "size".
C18_SegmentLength ==
    (sd.cmd # NoCall) =>
        sd.cmd.segment_time =
            IF sd.split_mode = "time"
            THEN str(int_mul(sd.split_time_minutes, 60))
            ELSE str(int_floordiv(int_mul(sd.split_size_mb, 8), 5))

\* C19: a call of download() that has ended has returned True or False, never
\* raised: True exactly when ydl.download (policy "none") or ffmpeg (the other
\* policies) was called and ended without an exception and with returncode 0;
\* False when the policy is none of the three, when extract_info raised or
\* its info could not be used, and when ffmpeg exited non-zero or could not be
\* run.
C19_DownloadNeverRaises ==
    /\ sd.ret # Raised
    /\ sd.pc = "returned" =>
          /\ sd.ret \in {Return(TRUE), Return(FALSE)}
          /\ sd.ret = Return(TRUE) <=>
                 IF sd.split_mode = "none"
                 THEN sd.perform = Return(0)
                 ELSE sd.run = Return(0)
          /\ sd.split_mode \notin {"time", "size", "none"} => sd.ret = Return(FALSE)
          /\ (sd.info # NoCall /\ sd.cmd = NoCall) => sd.ret = Return(FALSE)
          /\ sd.run \in {Return(1), Raised} => sd.ret = Return(FALSE)
          /\ sd.perform = Raised => sd.ret = Return(FALSE)

\* download() has returned False after ffmpeg exited with returncode 1.
C19_Witness ==
    /\ sd.pc = "returned"
    /\ sd.run = Return(1)
    /\ sd.ret = Return(FALSE)

-----------------------------------------------------------------------------
(* util/sanitize_url.py, channel_manager.py, web_api.py: the channels file
   under the requests for the channels and the settings, no monitor started *)

\* An address is [path, query]: the text up to the "?" and the name=value
\* pairs after it, in order. The empty string is the empty path with no query.
WatchPath == "https://www.youtube.com/watch"
EmptyUrl == [path |-> "", query |-> <<>>]

\* The pairs a request's address is made of.
QueryPairs == { <<"v", "ABC">>, <<"v", "DEF">>, <<"list", "XYZ">> }

RequestUrls ==
    {EmptyUrl} \cup
    { [path |-> WatchPath, query |-> q] :
        q \in UNION { [1..n -> QueryPairs] : n \in 0..MaxParams } }

\* The names of the pairs of q, each once, in the order of first occurrence:
\* the keys of the dict parse_qs builds
RECURSIVE QueryKeys(_)
QueryKeys(q) ==
    IF q = <<>> THEN <<>>
    ELSE LET init == QueryKeys(SubSeq(q, 1, Len(q) - 1))
             k == q[Len(q)][1]
         IN IF \E i \in DOMAIN init : init[i] = k THEN init ELSE Append(init, k)

\* Values are written with their reserved characters as they are or
\* percent-encoded; of the values used here only "1,2" has one.
unquote(value) == IF value = "1%2C2" THEN "1,2" ELSE value
quote_plus(value) == IF value = "1,2" THEN "1%2C2" ELSE value

\* parse_qs(query, keep_blank_values=True): name -> list of its values,
\* decoded
parse_qs(q) ==
    LET keys == QueryKeys(q) IN
    [i \in DOMAIN keys |->
        [key    |-> keys[i],
         values |-> LET pairs == SelectSeq(q, LAMBDA pair : pair[1] = keys[i])
                    IN [j \in DOMAIN pairs |-> unquote(pairs[j][2])]]]

PlaylistParams == {"list", "index", "start_radio", "rv"}

\* An urlencode that writes the first value of each name only.
RECURSIVE urlencode_first(_)
urlencode_first(params) ==
    IF params = <<>> THEN <<>>
    ELSE <<<<Head(params).key, quote_plus(Head(params).values[1])>>>>
         \o urlencode_first(Tail(params))

\* urlencode(clean_params, doseq=True): the pairs of each name, name by name,
\* the values encoded
RECURSIVE urlencode(_)
urlencode(params) ==
    IF params = <<>> THEN <<>>
    ELSE [j \in DOMAIN Head(params).values |->
             <<Head(params).key, quote_plus(Head(params).values[j])>>]
         \o urlencode(Tail(params))

\* sanitize_youtube_url
sanitize_youtube_url(url) ==
    [path  |-> url.path,
     query |-> urlencode(SelectSeq(parse_qs(url.query),
                                   LAMBDA param : param.key \notin PlaylistParams))]

DefaultFormat == "bestvideo[height<=720]+bestaudio/best[height<=720]"

\* str(uuid4()) of the n-th request
uuid4(n) == [uuid4 |-> n]

AlreadyExists == "Channel with URL already exists"

\* An add_channel that does not look for the address among the channels.
add_channel_unchecked(channels, id, name, url, enabled) ==
    IF url = EmptyUrl
    THEN [out |-> ValueError("Channel URL cannot be empty"), channels |-> channels]
    ELSE IF name = ""
    THEN [out |-> ValueError("Channel name cannot be empty"), channels |-> channels]
    ELSE LET channel == [id |-> id, name |-> name, url |-> url, enabled |-> enabled,
                         download_format |-> DefaultFormat]
         IN [out |-> Return(channel), channels |-> Append(channels, channel)]

\* ChannelManager.add_channel on the channels of the file: what it raises or
\* returns, and the channels it leaves in the file
add_channel(channels, id, name, url, enabled) ==
    IF \E i \in DOMAIN channels : channels[i].url = url
    THEN [out |-> ValueError(AlreadyExists), channels |-> channels]
    ELSE IF url = EmptyUrl
    THEN [out |-> ValueError("Channel URL cannot be empty"), channels |-> channels]
    ELSE IF name = ""
    THEN [out |-> ValueError("Channel name cannot be empty"), channels |-> channels]
    ELSE LET channel == [id |-> id, name |-> name, url |-> url, enabled |-> enabled,
                         download_format |-> DefaultFormat]
         IN [out |-> Return(channel), channels |-> Append(channels, channel)]

HTTPException(request, status_code, detail) ==
    [request |-> request, status_code |-> status_code, detail |-> detail]
OK(request, body) == [request |-> request, status_code |-> 200, body |-> body]

\* POST /api/channels, self.monitor being None
create_channel(name, url, enabled) ==
    LET request == [op |-> "create_channel", name |-> name, url |-> url,
                    enabled |-> enabled]
        clean_url == sanitize_youtube_url(url)
        added == add_channel(store, uuid4(ops + 1), name, clean_url, enabled)
    IN /\ ops < MaxRequests
       /\ store' = added.channels
       /\ resp' = IF "ret" \in DOMAIN added.out
                  THEN OK(request, added.out.ret)
                  ELSE HTTPException(request, 400, added.out.msg)
       /\ ops' = ops + 1
       /\ UNCHANGED <<global_settings, web, sups, hnd>>
       /\ UNCHANGED <<ckVars, monVars, sdVars, fnVars, hsVars, lmVars>>

\* The fields a PATCH /api/channels/{channel_id} can carry.
ChannelUpdateRequests ==
    { [url |-> u] : u \in RequestUrls } \cup
    { [enabled |-> e] : e \in BOOLEAN } \cup
    { [name |-> n] : n \in {"Test/Channel", ""} }

\* An update_channel that rebuilds the channel from the fields given and the
\* defaults of ChannelDTO: a channel updated without "enabled" becomes enabled.
update_channel_data_defaults(channel_data, fields) ==
    [f \in DOMAIN channel_data |->
        IF f \in DOMAIN fields THEN fields[f]
        ELSE IF f = "enabled" THEN TRUE
        ELSE channel_data[f]]

\* ChannelManager.update_channel: the channel with the fields given as
\* non-None replaced
update_channel_data(channel_data, fields) ==
    [f \in DOMAIN channel_data |->
        IF f \in DOMAIN fields THEN fields[f] ELSE channel_data[f]]

\* PATCH /api/channels/{channel_id}, self.monitor being None: an empty url
\* counts as no url; ChannelDTO(**channel_data) raises for an empty name
\* after the file is written
patch_channel(id, request) ==
    LET fields == IF "url" \in DOMAIN request
                  THEN IF request.url = EmptyUrl
                       THEN <<>>
                       ELSE [url |-> sanitize_youtube_url(request.url)]
                  ELSE request
        req == [op |-> "update_channel", id |-> id, fields |-> request]
    IN /\ ops < MaxRequests
       /\ ops' = ops + 1
       /\ IF id \in StoreIds
          THEN /\ store' = [i \in DOMAIN store |->
                              IF store[i].id = id
                              THEN update_channel_data(store[i], fields)
                              ELSE store[i]]
               /\ resp' = IF update_channel_data(get_channel(id), fields).name = ""
                          THEN HTTPException(req, 500, "Channel name cannot be empty")
                          ELSE OK(req, update_channel_data(get_channel(id), fields))
          ELSE /\ store' = store
               /\ resp' = HTTPException(req, 404, "Channel not found")
       /\ UNCHANGED <<global_settings, web, sups, hnd>>
       /\ UNCHANGED <<ckVars, monVars, sdVars, fnVars, hsVars, lmVars>>

\* DELETE /api/channels/{channel_id}, self.monitor being None
delete_stored_channel(id) ==
    LET req == [op |-> "delete_channel", id |-> id] IN
    /\ ops < MaxRequests
    /\ ops' = ops + 1
    /\ store' = remove_channel(id)
    /\ resp' = IF id \in StoreIds
               THEN OK(req, "Channel deleted successfully")
               ELSE HTTPException(req, 404, "Channel not found")
    /\ UNCHANGED <<global_settings, web, sups, hnd>>
    /\ UNCHANGED <<ckVars, monVars, sdVars, fnVars, hsVars, lmVars>>

\* The fields a PATCH /api/settings can carry.
GlobalSettingsUpdateRequests ==
    { [split_mode |-> m] : m \in {"size", "invalid"} } \cup
    { [check_interval_seconds |-> n] : n \in {0, 30} } \cup
    { [split_time_minutes |-> 0] }

\* PATCH /api/settings: update_global_settings writes the file, then builds
\* the GlobalSettingsDTO it returns
update_settings(request) ==
    LET settings == [f \in DOMAIN global_settings |->
                        IF f \in DOMAIN request THEN request[f] ELSE global_settings[f]]
        req == [op |-> "update_settings", fields |-> request]
    IN /\ ops < MaxRequests
       /\ ops' = ops + 1
       /\ global_settings' = settings
       /\ resp' = IF settings_post_init(settings) = PyNone
                  THEN OK(req, settings)
                  ELSE HTTPException(req, 400, settings_post_init(settings).msg)
       /\ UNCHANGED <<store, web, sups, hnd>>
       /\ UNCHANGED <<ckVars, monVars, sdVars, fnVars, hsVars, lmVars>>

\* The ids a request can name: those given out before it, and one never given
\* out.
RequestIds == { uuid4(n) : n \in 0..(MaxRequests - 1) }

\* A new channels file (_ensure_file_exists), no request handled yet.
InitStore ==
    /\ ck_pc = "returned"
    /\ ck_url = <<TestChannel>>
    /\ ck_world = [live |-> PyNone, streams |-> PyNone, page |-> PyNone]
    /\ ck_k = 1
    /\ ck_calls = <<>>
    /\ ck_ret = PyNone
    /\ mons = <<>>
    /\ thr = <<>>
    /\ store = <<>>
    /\ web = 0
    /\ sups = <<>>
    /\ hnd = Idle
    /\ ops = 0
    /\ sd = PyNone
    /\ global_settings = GlobalSettingsDTO
    /\ resp = PyNone
    /\ su = PyNone
    /\ lsi = PyNone
    /\ unwaited = {}
    /\ lsm = PyNone

NextStore ==
    \/ \E name \in {"Test Channel", ""}, url \in RequestUrls, enabled \in BOOLEAN :
          create_channel(name, url, enabled)
    \/ \E id \in RequestIds, request \in ChannelUpdateRequests : patch_channel(id, request)
    \/ \E id \in RequestIds : delete_stored_channel(id)
    \/ \E request \in GlobalSettingsUpdateRequests : update_settings(request)

SpecStore == InitStore /\ [][NextStore]_vars

-----------------------------------------------------------------------------
(* Properties of the channels file, under SpecStore *)

SameAddress(url) ==
    { i \in DOMAIN store : sanitize_youtube_url(store[i].url) = sanitize_youtube_url(url) }

\* C20: a POST /api/channels whose address, sanitized, equals the sanitized
\* address of a stored channel is answered 400 "... already exists", and leaves
\* the channels and the global settings of the file as they were.
C20_DuplicateRejected ==
    [][(/\ ops' = ops + 1
        /\ resp'.request.op = "create_channel"
        /\ SameAddress(resp'.request.url) # {}) =>
            /\ resp' = HTTPException(resp'.request, 400, AlreadyExists)
            /\ store' = store
            /\ global_settings' = global_settings]_vars

\* The last request was a POST /api/channels with playlist parameters in its
\* address, answered 400 "... already exists"; the file holds a channel and
\* settings that differ from the defaults.
C20_Witness ==
    /\ resp # PyNone
    /\ resp.request.op = "create_channel"
    /\ resp.request.url # sanitize_youtube_url(resp.request.url)
    /\ resp.status_code = 400
    /\ resp.detail = AlreadyExists
    /\ store # <<>>
    /\ global_settings # GlobalSettingsDTO

\* C21: no two channels of the file have the same sanitized address.
C21_UniqueAddresses ==
    \A i, j \in DOMAIN store :
        sanitize_youtube_url(store[i].url) = sanitize_youtube_url(store[j].url) => i = j

\* C25: two different channels of the file have different download
\* directories.
C25_DisjointDirectories ==
    \A i, j \in DOMAIN store :
        i # j => channel_download_dir(store[i], global_settings)
                    # channel_download_dir(store[j], global_settings)


\* C37: a PATCH /api/settings that is answered 400 leaves the global_settings
\* of the channels file as they were, and the stored settings are at all times
\* settings that GlobalSettingsDTO accepts, so that get_global_settings
\* returns.
C37_RejectedUpdateFrame ==
    /\ [][(/\ ops' = ops + 1
           /\ resp'.request.op = "update_settings"
           /\ resp'.status_code = 400) => global_settings' = global_settings]_vars
    /\ [](settings_post_init(global_settings) = PyNone)


\* The fields a PATCH /api/channels request hands to update_channel as
\* non-None, with their values: an empty url is handed over as None, another
\* url as sanitize_youtube_url returns it.
PassedFields(request) ==
    IF "url" \in DOMAIN request
    THEN IF request.url = EmptyUrl THEN {} ELSE {"url"}
    ELSE DOMAIN request

PassedValue(request, f) ==
    IF f = "url" THEN sanitize_youtube_url(request.url) ELSE request[f]

\* C39: update_channel, called for a stored id, gives the fields passed as
\* non-None their new values in that channel and leaves its other fields, the
\* other channels, their order and the global settings as they were; called
\* for an id that is not stored it returns None (the request is answered 404)
\* and leaves the channels and the settings as they were.
C39_UpdateChannelFrame ==
    [][(ops' = ops + 1 /\ resp'.request.op = "update_channel") =>
          LET id == resp'.request.id
              request == resp'.request.fields
          IN  /\ global_settings' = global_settings
              /\ DOMAIN store' = DOMAIN store
              /\ id \notin StoreIds =>
                    /\ store' = store
                    /\ resp'.status_code = 404
              /\ \A i \in DOMAIN store :
                    IF store[i].id # id
                    THEN store'[i] = store[i]
                    ELSE /\ DOMAIN store'[i] = DOMAIN store[i]
                         /\ \A f \in DOMAIN store[i] :
                               store'[i][f] = IF f \in PassedFields(request)
                                              THEN PassedValue(request, f)
                                              ELSE store[i][f]]_vars

\* Of two stored channels the second was disabled by an update that passed
\* enabled alone: it keeps its name and its url, and the first is enabled.
C39_Witness ==
    /\ resp # PyNone
    /\ resp.request.op = "update_channel"
    /\ resp.status_code = 200
    /\ resp.request.fields = [enabled |-> FALSE]
    /\ Len(store) = 2
    /\ store[2].id = resp.request.id
    /\ ~store[2].enabled
    /\ store[2].name = "Test Channel"
    /\ store[2].url # store[1].url
    /\ store[1].enabled

-----------------------------------------------------------------------------
(* multi_channel_monitor.py, web_api.py: one ChannelMonitorThread, constructed
   with the stored settings and started, under PATCH /api/settings requests *)

InitRefresh ==
    /\ ck_pc = "returned"
    /\ ck_url = <<TestChannel>>
    /\ ck_world = [live |-> PyNone, streams |-> PyNone, page |-> PyNone]
    /\ ck_k = 1
    /\ ck_calls = <<>>
    /\ ck_ret = PyNone
    /\ mons = <<ChannelMonitorThread(TestChannelDTO, GlobalSettingsDTO, 0)>>
    /\ thr = <<>>
    /\ store = <<>>
    /\ web = 0
    /\ sups = <<>>
    /\ hnd = Idle
    /\ ops = 0
    /\ sd = PyNone
    /\ global_settings = GlobalSettingsDTO
    /\ resp = PyNone
    /\ su = PyNone
    /\ lsi = PyNone
    /\ unwaited = {}
    /\ lsm = PyNone

NextRefresh ==
    \/ CallStart
    \/ \E request \in GlobalSettingsUpdateRequests : update_settings(request)
    \/ \E t \in ThreadIds : WorkerStep(t)

SpecRefresh == InitRefresh /\ [][NextRefresh]_vars

-----------------------------------------------------------------------------
(* Properties of a monitor under settings updates, under SpecRefresh *)

\* C26: when a worker begins a cycle while the stored settings are valid, its
\* monitor holds the stored settings (whose check_interval_seconds the sleep
\* after the cycle uses, and whose split settings its downloader was given).
C26_SettingsRefreshed ==
    [][\A t \in DOMAIN thr :
          (/\ thr[t].pc = "while"
           /\ thr'[t].pc = "cycle"
           /\ settings_post_init(global_settings') = PyNone) =>
              mons'[thr[t].mon].global_settings = global_settings']_vars


-----------------------------------------------------------------------------
(* A monitored channel beside PATCH /api/channels/{channel_id} requests     *)
(* that give a url alone: with enabled None the handler leaves the         *)
(* MultiChannelMonitor alone, running or not.                             *)

\* The channels file holds one enabled channel, with any address that
\* sanitize_youtube_url returns, and the ChannelMonitorThread of that channel
\* has been constructed.
InitPoll ==
    /\ ck_pc = "returned"
    /\ ck_url = <<TestChannel>>
    /\ ck_world = [live |-> PyNone, streams |-> PyNone, page |-> PyNone]
    /\ ck_k = 1
    /\ ck_calls = <<>>
    /\ ck_ret = PyNone
    /\ store \in { add_channel(<<>>, uuid4(0), "Test Channel",
                                sanitize_youtube_url(url), TRUE).channels :
                      url \in RequestUrls \ {EmptyUrl} }
    /\ mons = <<ChannelMonitorThread(
                    [id |-> store[1].id, name |-> store[1].name, url |-> store[1].url],
                    GlobalSettingsDTO, 0)>>
    /\ thr = <<>>
    /\ web = 0
    /\ sups = <<>>
    /\ hnd = Idle
    /\ ops = 0
    /\ sd = PyNone
    /\ global_settings = GlobalSettingsDTO
    /\ resp = PyNone
    /\ su = PyNone
    /\ lsi = PyNone
    /\ unwaited = {}
    /\ lsm = PyNone

NextPoll ==
    \/ CallStart
    \/ \E id \in RequestIds, url \in RequestUrls : patch_channel(id, [url |-> url])
    \/ \E t \in ThreadIds : WorkerStep(t)

SpecPoll == InitPoll /\ [][NextPoll]_vars

\* C38: each check_if_live call of a monitor is made with the url that the
\* channels file holds for the monitor's channel at the time of the call.
C38_PollsStoredAddress ==
    [][\A t \in DOMAIN thr :
          (thr[t].pc = "cycle" /\ thr'[t].pc = "check_if_live") =>
              mons[thr[t].mon].channel.url
                  = get_channel(mons[thr[t].mon].channel.id).url]_vars

-----------------------------------------------------------------------------
(* util/sanitize_url.py: sanitize_youtube_url applied to an address, and to
   its own result *)

SanitizePairs ==
    QueryPairs \cup { <<"index", "2">>, <<"t", "1">>, <<"q", "1,2">>, <<"q", "1%2C2">> }

SanitizeUrls ==
    { [path |-> WatchPath, query |-> q] :
        q \in UNION { [1..n -> SanitizePairs] : n \in 0..MaxPairs } }

\* clean_url = sanitize_youtube_url(url)
sanitize_call ==
    /\ su # PyNone
    /\ su.clean_url = NoCall
    /\ su' = [su EXCEPT !.clean_url = sanitize_youtube_url(su.url)]
    /\ UNCHANGED <<ckVars, monVars, supVars, sdVars, cmVars, lsi, hsVars, lmVars>>

\* sanitize_youtube_url(clean_url)
sanitize_again ==
    /\ su # PyNone
    /\ su.clean_url # NoCall
    /\ su.again = NoCall
    /\ su' = [su EXCEPT !.again = sanitize_youtube_url(su.clean_url)]
    /\ UNCHANGED <<ckVars, monVars, supVars, sdVars, cmVars, lsi, hsVars, lmVars>>

InitSanitize ==
    /\ ck_pc = "returned"
    /\ ck_url = <<TestChannel>>
    /\ ck_world = [live |-> PyNone, streams |-> PyNone, page |-> PyNone]
    /\ ck_k = 1
    /\ ck_calls = <<>>
    /\ ck_ret = PyNone
    /\ mons = <<>>
    /\ thr = <<>>
    /\ store = <<>>
    /\ web = 0
    /\ sups = <<>>
    /\ hnd = Idle
    /\ ops = 0
    /\ sd = PyNone
    /\ global_settings = GlobalSettingsDTO
    /\ resp = PyNone
    /\ su \in { [url |-> url, clean_url |-> NoCall, again |-> NoCall] : url \in SanitizeUrls }
    /\ lsi = PyNone
    /\ unwaited = {}
    /\ lsm = PyNone

NextSanitize ==
    \/ sanitize_call
    \/ sanitize_again

SpecSanitize == InitSanitize /\ [][NextSanitize]_vars

-----------------------------------------------------------------------------
(* Properties of sanitize_youtube_url, under SpecSanitize *)

HasPlaylistParam(url) == \E i \in DOMAIN url.query : url.query[i][1] \in PlaylistParams

ValuesOf(url, name) ==
    LET pairs == SelectSeq(url.query, LAMBDA pair : pair[1] = name)
    IN [j \in DOMAIN pairs |-> unquote(pairs[j][2])]

Names(url) == { url.query[i][1] : i \in DOMAIN url.query }

\* The pairs of a name are next to each other, and the values are written
\* the way urlencode writes them.
WrittenAsEncoded(url) ==
    /\ \A i, j, k \in DOMAIN url.query :
          (i < j /\ j < k /\ url.query[i][1] = url.query[k][1]) =>
              url.query[j][1] = url.query[i][1]
    /\ \A i \in DOMAIN url.query : quote_plus(unquote(url.query[i][2])) = url.query[i][2]

-----------------------------------------------------------------------------
(* monitor.py: LiveStreamMonitor, the monitor of one channel, whose loop    *)
(* runs on the thread that calls start().  A KeyboardInterrupt is raised   *)
(* in that thread at whatever statement it is executing.                  *)

\* LiveStreamMonitor.__init__, and start() about to enter its loop; `cycles`
\* counts the cycles begun, `det` and `out` keep what check_if_live and
\* download last handed back, `at` where the interrupt arrived.
LiveStreamMonitor ==
    [pc |-> "cycle", is_downloading |-> FALSE, cycles |-> 0,
     det |-> NoCall, out |-> NoCall, at |-> "nowhere"]

\* _monitor_cycle up to the call of check_if_live, or up to the sleep of a
\* skipped cycle
lsm_monitor_cycle ==
    /\ lsm # PyNone
    /\ lsm.pc = "cycle"
    /\ lsm.cycles < MaxCycles
    /\ lsm' = [lsm EXCEPT
                 !.pc = IF lsm.is_downloading THEN "skip_sleep" ELSE "check_if_live",
                 !.cycles = @ + 1,
                 !.det = NoCall,
                 !.out = NoCall]
    /\ UNCHANGED <<ckVars, monVars, supVars, sdVars, cmVars, fnVars, hsVars>>

\* check_if_live hands back (is_live, stream_info) or raises an Exception:
\* _handle_live_stream sets is_downloading and calls download, or the cycle
\* goes to its sleep, or the except clause of start() logs and sleeps
lsm_check_if_live_done(outcome) ==
    /\ lsm # PyNone
    /\ lsm.pc = "check_if_live"
    /\ lsm' = IF outcome = Raised
              THEN [lsm EXCEPT !.pc = "except_sleep", !.det = outcome]
              ELSE IF outcome.ret[1] /\ outcome.ret[2] # PyNone
              THEN [lsm EXCEPT !.pc = "download", !.det = outcome,
                               !.is_downloading = TRUE]
              ELSE [lsm EXCEPT !.pc = "sleep", !.det = outcome]
    /\ UNCHANGED <<ckVars, monVars, supVars, sdVars, cmVars, fnVars, hsVars>>

\* downloader.download hands back True or False, or raises: the finally
\* clause clears is_downloading
lsm_download_done(outcome) ==
    /\ lsm # PyNone
    /\ lsm.pc = "download"
    /\ lsm' = [lsm EXCEPT
                 !.pc = IF outcome = Raised THEN "except_sleep" ELSE "sleep",
                 !.out = outcome,
                 !.is_downloading = FALSE]
    /\ UNCHANGED <<ckVars, monVars, supVars, sdVars, cmVars, fnVars, hsVars>>

\* time.sleep(check_interval_seconds) ends: the next iteration of "while True"
lsm_sleep_done ==
    /\ lsm # PyNone
    /\ lsm.pc \in {"sleep", "skip_sleep", "except_sleep"}
    /\ lsm' = [lsm EXCEPT !.pc = "cycle"]
    /\ UNCHANGED <<ckVars, monVars, supVars, sdVars, cmVars, fnVars, hsVars>>

\* KeyboardInterrupt.  Inside the try (in _monitor_cycle, its calls and its
\* sleeps) it passes the finally clause of _handle_live_stream and is caught
\* by "except KeyboardInterrupt: break", and start() returns; in the sleep of
\* "except Exception", which is outside the try, nothing catches it and it
\* leaves start().
lsm_keyboard_interrupt ==
    /\ lsm # PyNone
    /\ lsm.pc \notin {"returned", "raised"}
    /\ lsm' = [lsm EXCEPT
                 !.pc = IF lsm.pc = "except_sleep" THEN "raised" ELSE "returned",
                 !.at = lsm.pc,
                 !.is_downloading = FALSE]
    /\ UNCHANGED <<ckVars, monVars, supVars, sdVars, cmVars, fnVars, hsVars>>

InitSingle ==
    /\ ck_pc = "returned"
    /\ ck_url = <<TestChannel>>
    /\ ck_world = [live |-> PyNone, streams |-> PyNone, page |-> PyNone]
    /\ ck_k = 1
    /\ ck_calls = <<>>
    /\ ck_ret = PyNone
    /\ mons = <<>>
    /\ thr = <<>>
    /\ store = <<>>
    /\ web = 0
    /\ sups = <<>>
    /\ hnd = [op |-> "idle"]
    /\ ops = 0
    /\ sd = PyNone
    /\ global_settings = GlobalSettingsDTO
    /\ resp = PyNone
    /\ su = PyNone
    /\ lsi = PyNone
    /\ unwaited = {}
    /\ lsm = LiveStreamMonitor

NextSingle ==
    \/ lsm_monitor_cycle
    \/ \E outcome \in DetectorOutcomes : lsm_check_if_live_done(outcome)
    \/ \E outcome \in SegmenterOutcomes : lsm_download_done(outcome)
    \/ lsm_sleep_done
    \/ lsm_keyboard_interrupt

SpecSingle == InitSingle /\ [][NextSingle]_vars

-----------------------------------------------------------------------------
(* Properties of LiveStreamMonitor.start, under SpecSingle *)

\* C33: a KeyboardInterrupt never leaves start(): wherever it arrives, start()
\* returns, and is_downloading is False when start() has ended.
C33_InterruptStopsGracefully ==
    /\ lsm.pc # "raised"
    /\ lsm.pc = "returned" => ~lsm.is_downloading

====
